---------------------------- MODULE Spec2Model ----------------------------
(***************************************************************************)
(* A model of scfmod/fs-utils: the byte-shift transform of fs-lib, the     *)
(* decode drivers of fs-luau-decompile / fs-luajit-decompile, the Luau     *)
(* bytecode structural decoder and the debug-info reattachment engine.     *)
(*                                                                         *)
(* Byte buffers are sequences of integers 0..255.  Text buffers are        *)
(* sequences of one-character strings (one element per byte); the element  *)
(* "<ff>" stands for a byte that is not valid UTF-8.  Source offsets are   *)
(* 0-based; TLA+ sequences are 1-based, so self[i] is written self[i + 1]. *)
(***************************************************************************)
EXTENDS Integers, Sequences, FiniteSets, TLC

VARIABLES
    pc,         \* position of the modelled driver / loop
    buffer,     \* the Vec<u8> being worked on
    input,      \* the buffer as it was handed in
    table,      \* shift: the ByteshiftTable in use
    ops,        \* shift: the operations applied so far
    hist,       \* shift: the buffer before the first and after every operation
    panicked,   \* the program panicked (index out of range, overflow check)
    res,        \* the Result of the driver: "none" while running, "ok", "err"
    tool,       \* decode: which binary is running
    info,       \* decode: what get_bytecode_info returned
    desc,       \* parse: the module description the input bytes encode
    overflow_checks, \* parse: the build has overflow checks (debug profile)
    cursor,     \* parse: offset of the next unread byte
    bc_version, \* parse: the format version byte
    types_version,   \* parse: the types version byte
    remaining,  \* parse: prototypes still to read
    symbol_table,    \* the decoded symbol table
    prototypes, \* the decoded prototypes, in decode order
    main,       \* index of the main prototype
    opts,       \* format: the DecompileOptions
    proto_index,     \* format: i of the loop over the prototypes
    parser,     \* format: the FunctionParser of the current prototype, if any
    nearest_proto_position, \* format: position of the first located site
    before,     \* format: the buffer when the current prototype's turn began
    files,      \* batch: what has become of each file of the batch
    full,       \* batch: an item has failed, no further item is started
    disk,       \* patch: the executable as it is on disk
    patches,    \* patch: what find_valid_patches returned
    is_modified,     \* patch: a patch was applied or reverted in this run
    runs        \* patch: the completed runs of fs-patch, in order

vars == <<pc, buffer, input, table, ops, hist, panicked, res, tool, info,
          desc, overflow_checks, cursor, bc_version, types_version, remaining,
          symbol_table, prototypes, main,
          opts, proto_index, parser, nearest_proto_position, before,
          files, full, disk, patches, is_modified, runs>>

shiftVars == <<table, ops, hist>>
decodeVars == <<tool, info>>
parseVars == <<desc, overflow_checks, cursor, bc_version, types_version, remaining>>
modelVars == <<symbol_table, prototypes, main>>
formatVars == <<opts, proto_index, parser, nearest_proto_position, before>>
batchVars == <<files, full>>
patchVars == <<disk, patches, is_modified, runs>>

\* The values of the variables a specification does not use.
IdleShift == table = [bytes |-> <<>>, offset |-> 0, mask |-> 0] /\ ops = <<>> /\ hist = <<>>
IdleDecode == tool = "none" /\ info = [version |-> 0, is_encoded |-> FALSE, is_dlc |-> FALSE]
IdleParse ==
    /\ desc = <<>> /\ overflow_checks = FALSE /\ cursor = 0
    /\ bc_version = 0 /\ types_version = 0 /\ remaining = 0
IdleModel == symbol_table = <<>> /\ prototypes = <<>> /\ main = 0
IdleFormat ==
    /\ opts = <<>> /\ proto_index = 0 /\ parser = <<>>
    /\ nearest_proto_position = 0 /\ before = <<>>
IdleBatch == files = <<>> /\ full = FALSE
IdlePatch == disk = <<>> /\ patches = <<>> /\ is_modified = FALSE /\ runs = <<>>

NoInfo == [version |-> 0, is_encoded |-> FALSE, is_dlc |-> FALSE]

(***************************************************************************)
(* Bounds                                                                  *)
(***************************************************************************)
MaxTail == 2
MaxOps == 2

(***************************************************************************)
(* 8-bit arithmetic                                                        *)
(***************************************************************************)
RECURSIVE BitAnd(_, _)
BitAnd(a, b) ==
    IF a = 0 \/ b = 0 THEN 0
    ELSE (a % 2) * (b % 2) + 2 * BitAnd(a \div 2, b \div 2)

\* u8::wrapping_add / u8::wrapping_sub
wrapping_add(a, b) == (a + b) % 256
wrapping_sub(a, b) == (a - b + 256) % 256

\* `i as u8`: truncation of a usize to its low 8 bits
as_u8(i) == i % 256

(***************************************************************************)
(* fs-lib/src/buffer.rs: shift_bytes / shift_bytes_reversed                *)
(* The result is the buffer as the loop left it and whether indexing the   *)
(* table panicked (table[i & mask] with i & mask >= table.len()).          *)
(***************************************************************************)
\* The indices offset..len-1 the loop visits, and the first of them (if any)
\* at which table[i & mask] is out of range: the iteration that panics.
\* Iterations are independent of one another (each reads and writes self[i]
\* only), so the loop is written as a map over the indices before that one.
loop_range(self, offset) == {i \in 0..(Len(self) - 1) : i >= offset}

panic_index(self, bytes, offset, mask) ==
    LET bad == {i \in loop_range(self, offset) : BitAnd(i, mask) >= Len(bytes)}
    IN IF bad = {} THEN Len(self)
       ELSE CHOOSE i \in bad : \A j \in bad : i <= j

\* mutant: the loop starts at 0 instead of `offset`
shift_bytes_from_zero(self, bytes, offset, mask) ==
    LET stop == panic_index(self, bytes, 0, mask)
    IN [buf |-> [k \in 1..Len(self) |->
                    IF k - 1 < stop
                    THEN wrapping_add(wrapping_add(self[k], bytes[BitAnd(k - 1, mask) + 1]),
                                      as_u8(k - 1))
                    ELSE self[k]],
        panic |-> stop < Len(self)]

shift_bytes(self, bytes, offset, mask) ==
    LET stop == panic_index(self, bytes, offset, mask)
    IN [buf |-> [k \in 1..Len(self) |->
                    IF k - 1 >= offset /\ k - 1 < stop
                    THEN LET value == self[k]
                             bytecode == bytes[BitAnd(k - 1, mask) + 1]
                         IN wrapping_add(wrapping_add(value, bytecode), as_u8(k - 1))
                    ELSE self[k]],
        panic |-> stop < Len(self)]

\* mutant: the index is not subtracted when undoing
shift_bytes_reversed_noindex(self, bytes, offset, mask) ==
    LET stop == panic_index(self, bytes, offset, mask)
    IN [buf |-> [k \in 1..Len(self) |->
                    IF k - 1 >= offset /\ k - 1 < stop
                    THEN wrapping_sub(self[k], bytes[BitAnd(k - 1, mask) + 1])
                    ELSE self[k]],
        panic |-> stop < Len(self)]

shift_bytes_reversed(self, bytes, offset, mask) ==
    LET stop == panic_index(self, bytes, offset, mask)
    IN [buf |-> [k \in 1..Len(self) |->
                    IF k - 1 >= offset /\ k - 1 < stop
                    THEN LET value == self[k]
                             bytecode == bytes[BitAnd(k - 1, mask) + 1]
                         IN wrapping_sub(wrapping_sub(value, bytecode), as_u8(k - 1))
                    ELSE self[k]],
        panic |-> stop < Len(self)]

(***************************************************************************)
(* fs-lib/src/lib.rs: the byteshift table catalogs                         *)
(***************************************************************************)
LuauTableScripts ==
    [bytes |-> <<2, 19, 10, 8, 1, 7, 2, 2>>, offset |-> 0, mask |-> 7]

LuauTableDlc ==
    [bytes |-> <<20, 5, 15, 11, 1, 8, 2, 3, 3, 8, 4, 3, 1, 4, 7, 8>>,
     offset |-> 0, mask |-> 15]

LuajitTable3 ==
    [bytes |-> <<20, 11, 9, 2, 8, 3, 3, 3>>, offset |-> 4, mask |-> 7]

LuajitTable4 ==
    [bytes |-> <<6, 16, 12, 2, 9, 3, 4, 4, 9, 5, 4, 2, 5, 8, 9, 21>>,
     offset |-> 4, mask |-> 15]

\* LUAU_DECODE_TABLES.get(&(version, is_dlc)): <<found, table>>
LUAU_DECODE_TABLES(version, is_dlc) ==
    IF version \in {3, 6} /\ ~is_dlc THEN <<TRUE, LuauTableScripts>>
    ELSE IF version \in {3, 6} /\ is_dlc THEN <<TRUE, LuauTableDlc>>
    ELSE <<FALSE, LuauTableScripts>>

\* LUAJIT_DECODE_TABLES.get(&version): <<found, table>>
LUAJIT_DECODE_TABLES(version) ==
    IF version = 3 THEN <<TRUE, LuajitTable3>>
    ELSE IF version = 4 THEN <<TRUE, LuajitTable4>>
    ELSE <<FALSE, LuajitTable3>>

(***************************************************************************)
(* Specification SpecShift: the transform applied to arbitrary buffers     *)
(***************************************************************************)
ByteSamples == {0, 1, 200, 255}

RECURSIVE SeqsUpTo(_, _)
SeqsUpTo(S, n) ==
    IF n = 0 THEN {<<>>}
    ELSE LET shorter == SeqsUpTo(S, n - 1)
         IN shorter \cup {Append(s, x) : s \in {t \in shorter : Len(t) = n - 1}, x \in S}

Zeros(n) == [k \in 1..n |-> 0]

\* Buffers short enough to enumerate, and the same behind a run of zero
\* bytes so that indices 255, 256, ... (where `i as u8` wraps) occur.
ShiftBuffers ==
    {Zeros(pad) \o tail : pad \in {0, 3, 255}, tail \in SeqsUpTo(ByteSamples, MaxTail)}

\* The catalog's tables, and table/offset/mask combinations outside it.
ShiftTables ==
    { LuauTableScripts, LuauTableDlc, LuajitTable3, LuajitTable4,
      [bytes |-> <<7, 250>>, offset |-> 1, mask |-> 1],
      [bytes |-> <<9>>, offset |-> 255, mask |-> 0],
      [bytes |-> <<5, 6, 7>>, offset |-> 2, mask |-> 5],
      [bytes |-> <<2, 19, 10, 8>>, offset |-> 0, mask |-> 7],
      [bytes |-> <<>>, offset |-> 0, mask |-> 0],
      [bytes |-> <<1, 2>>, offset |-> 300, mask |-> 255] }

InitShift ==
    /\ pc = "shift"
    /\ buffer \in ShiftBuffers
    /\ input = buffer
    /\ table \in ShiftTables
    /\ ops = <<>>
    /\ hist = <<buffer>>
    /\ panicked = FALSE
    /\ res = "none"
    /\ IdleDecode /\ IdleParse /\ IdleModel /\ IdleFormat
    /\ IdleBatch /\ IdlePatch

ShiftBytes ==
    /\ pc = "shift" /\ ~panicked /\ Len(ops) < MaxOps
    /\ LET r == shift_bytes(buffer, table.bytes, table.offset, table.mask)
       IN /\ buffer' = r.buf
          /\ panicked' = r.panic
          /\ hist' = Append(hist, r.buf)
    /\ ops' = Append(ops, "shift_bytes")
    /\ UNCHANGED <<pc, input, table, res, decodeVars, parseVars, modelVars, formatVars>>
    /\ UNCHANGED <<batchVars, patchVars>>

ShiftBytesReversed ==
    /\ pc = "shift" /\ ~panicked /\ Len(ops) < MaxOps
    /\ LET r == shift_bytes_reversed(buffer, table.bytes, table.offset, table.mask)
       IN /\ buffer' = r.buf
          /\ panicked' = r.panic
          /\ hist' = Append(hist, r.buf)
    /\ ops' = Append(ops, "shift_bytes_reversed")
    /\ UNCHANGED <<pc, input, table, res, decodeVars, parseVars, modelVars, formatVars>>
    /\ UNCHANGED <<batchVars, patchVars>>

NextShift == ShiftBytes \/ ShiftBytesReversed

SpecShift == InitShift /\ [][NextShift]_vars

\* Every index the loop visits has an entry in the table.
TableCovers(buf, t) ==
    \A i \in 0..(Len(buf) - 1) : i >= t.offset => BitAnd(i, t.mask) < Len(t.bytes)

\* A pair of consecutive, opposite operations returns the buffer it started from.
RoundTrips ==
    \A k \in 1..(Len(ops) - 1) : ops[k] # ops[k + 1] => hist[k + 2] = hist[k]

\* C1 as stated: for every table, offset, mask and buffer the two operations
\* complete and undo one another, in either order.
C1_AsStated == ~panicked /\ RoundTrips

\* C1 (amended): whenever the table has an entry at i & mask for every index
\* i with offset <= i < len, shift_bytes followed by shift_bytes_reversed
\* (and the opposite order) completes and yields exactly the original buffer.
C1_RoundTrip == TableCovers(input, table) => (~panicked /\ RoundTrips)

\* A forward/backward pair has run on a buffer that the shift really changes,
\* at indices past 255.
C1_Witness ==
    /\ Len(ops) = 2 /\ ops[1] # ops[2] /\ ~panicked
    /\ Len(input) > 256 /\ table.offset < Len(input)
    /\ hist[2] # hist[1] /\ hist[3] = hist[1]

\* C2: shift_bytes replaces the byte at every index i, offset <= i < len, by
\* (buffer[i] + table[i & mask] + i) mod 256, and leaves the bytes before
\* offset and the length unchanged.
C2_ShiftContract ==
    \A k \in 1..Len(ops) :
        (ops[k] = "shift_bytes" /\ ~(k = Len(ops) /\ panicked)) =>
            /\ Len(hist[k + 1]) = Len(hist[k])
            /\ \A i \in 0..(Len(hist[k]) - 1) :
                  hist[k + 1][i + 1] =
                      IF i < table.offset THEN hist[k][i + 1]
                      ELSE (hist[k][i + 1] + table.bytes[BitAnd(i, table.mask) + 1] + i) % 256

\* shift_bytes has run with a non-zero offset inside the buffer, over an
\* index above 255 and with a byte sum that wraps.
C2_Witness ==
    /\ Len(ops) >= 1 /\ ops[1] = "shift_bytes" /\ ~panicked
    /\ table.offset > 0 /\ Len(input) > 256
    /\ \E i \in table.offset..(Len(input) - 1) :
          input[i + 1] + table.bytes[BitAnd(i, table.mask) + 1] > 255

(***************************************************************************)
(* fs-luau-decompile/src/main.rs: get_bytecode_info, decode_bytecode,      *)
(* decode_file; fs-luajit-decompile/src/main.rs: is_valid, is_encoded,     *)
(* decode, decompile                                                       *)
(***************************************************************************)
Info(v, e, d) == [version |-> v, is_encoded |-> e, is_dlc |-> d]

\* match &buffer[0..3] { ... }: the slice panics on a buffer of fewer than
\* 3 bytes; then the arms in source order
get_bytecode_info(buf) ==
    IF Len(buf) < 3 THEN [panic |-> TRUE]
    ELSE IF buf[1] = 3 /\ buf[2] = 0 /\ buf[3] = 242 THEN Info(6, TRUE, TRUE)
    ELSE IF buf[1] = 2 /\ buf[2] = 239 THEN Info(3, TRUE, FALSE)
    ELSE IF buf[1] = 3 /\ buf[2] = 253 THEN Info(3, TRUE, TRUE)
    ELSE IF buf[1] = 2 /\ buf[2] = 240 THEN Info(4, TRUE, FALSE)
    ELSE IF buf[1] = 2 /\ buf[2] = 242 THEN Info(6, TRUE, FALSE)
    ELSE IF buf[1] = 6 /\ buf[2] = 3 THEN Info(6, FALSE, FALSE)
    ELSE IF buf[1] = 3 THEN Info(3, FALSE, FALSE)
    ELSE IF buf[1] = 4 THEN Info(4, FALSE, FALSE)
    ELSE Info(0, FALSE, FALSE)

\* Vec::remove(0): a panic on the empty vector
remove_first(buf) ==
    IF Len(buf) = 0 THEN [buf |-> buf, panic |-> TRUE]
    ELSE [buf |-> SubSeq(buf, 2, Len(buf)), panic |-> FALSE]

\* mutant: a missing key falls back to the scripts table
decode_bytecode_fallback(buf, version, is_dlc) ==
    LET t == LUAU_DECODE_TABLES(version, is_dlc)[2]
        r == shift_bytes(buf, t.bytes, t.offset, t.mask)
        d == remove_first(r.buf)
    IN [res |-> IF r.panic \/ d.panic THEN "none" ELSE "ok",
        buf |-> IF r.panic THEN r.buf ELSE d.buf, panic |-> r.panic \/ d.panic]

\* main.rs:61-70
decode_bytecode(buf, version, is_dlc) ==
    LET found == LUAU_DECODE_TABLES(version, is_dlc)
    IN IF ~found[1] THEN [res |-> "err", buf |-> buf, panic |-> FALSE]
       ELSE LET t == found[2]
                r == shift_bytes(buf, t.bytes, t.offset, t.mask)
                d == remove_first(r.buf)
            IN IF r.panic \/ d.panic THEN [res |-> "none", buf |-> r.buf, panic |-> TRUE]
               ELSE [res |-> "ok", buf |-> d.buf, panic |-> FALSE]

\* buffer[0..3] == [0x1B, 0x4C, 0x4A]: the slice panics on a buffer of
\* fewer than 3 bytes
is_valid(buf) ==
    [panic |-> Len(buf) < 3,
     val |-> Len(buf) >= 3 /\ buf[1] = 27 /\ buf[2] = 76 /\ buf[3] = 74]

\* buffer[4] == 0xFC: the index panics on a buffer of fewer than 5 bytes
is_encoded(buf) ==
    [panic |-> Len(buf) < 5, val |-> Len(buf) >= 5 /\ buf[5] = 252]

\* mutant: the shift runs before the table lookup can fail
luajit_decode_fallback(buf) ==
    IF Len(buf) < 4 THEN [res |-> "none", buf |-> buf, panic |-> TRUE]
    ELSE
    LET t == LUAJIT_DECODE_TABLES(buf[4])[2]
        r == shift_bytes(buf, t.bytes, t.offset, t.mask)
    IN [res |-> "ok", buf |-> [r.buf EXCEPT ![4] = 2], panic |-> r.panic]

\* fs-luajit-decompile main.rs:44-53: buffer[3] panics on a buffer of fewer
\* than 4 bytes
luajit_decode(buf) ==
    IF Len(buf) < 4 THEN [res |-> "none", buf |-> buf, panic |-> TRUE]
    ELSE
    LET found == LUAJIT_DECODE_TABLES(buf[4])
    IN IF ~found[1] THEN [res |-> "err", buf |-> buf, panic |-> FALSE]
       ELSE LET t == found[2]
                r == shift_bytes(buf, t.bytes, t.offset, t.mask)
            IN IF r.panic THEN [res |-> "none", buf |-> r.buf, panic |-> TRUE]
               ELSE [res |-> "ok", buf |-> [r.buf EXCEPT ![4] = 2], panic |-> FALSE]

(***************************************************************************)
(* Specification SpecDecode: one file through decode_file (Luau) or        *)
(* through the head of decompile (LuaJIT)                                  *)
(***************************************************************************)
LuauHeaders ==
    { <<3, 0, 242>>, <<2, 239, 7>>, <<3, 253, 7>>, <<2, 240, 7>>, <<2, 242, 7>>,
      <<6, 3, 7>>, <<3, 0, 7>>, <<4, 1, 7>>, <<5, 0, 0>>, <<2, 0, 0>>, <<2, 241, 7>>,
      <<2, 239>>, <<>> }

LuajitHeaders ==
    { <<27, 76, 74, v, e>> : v \in {1, 2, 3, 4, 128}, e \in {252, 0} }
        \cup { <<27, 76, 75, 3, 252>>, <<27, 76, 74, 3>>, <<27, 76>> }

InitDecode ==
    /\ pc = "start"
    /\ tool \in {"fs-luau-decompile", "fs-luajit-decompile"}
    /\ \E h \in (IF tool = "fs-luau-decompile" THEN LuauHeaders ELSE LuajitHeaders),
          tail \in SeqsUpTo(ByteSamples, MaxTail) :
          buffer = h \o tail
    /\ input = buffer
    /\ info = NoInfo
    /\ res = "none"
    /\ panicked = FALSE
    /\ IdleShift /\ IdleParse /\ IdleModel /\ IdleFormat
    /\ IdleBatch /\ IdlePatch

\* decode_file up to the call of decode_bytecode (main.rs:102-113)
GetBytecodeInfo ==
    /\ pc = "start" /\ tool = "fs-luau-decompile"
    /\ LET i == get_bytecode_info(buffer)
       IN IF i = [panic |-> TRUE]
          THEN /\ panicked' = TRUE
               /\ pc' = "done"
               /\ UNCHANGED <<info, res>>
          ELSE /\ info' = i
               /\ panicked' = FALSE
               /\ IF i.version = 0 THEN pc' = "done" /\ res' = "err"
                  ELSE IF i.is_encoded THEN pc' = "decode" /\ res' = "none"
                  ELSE pc' = "done" /\ res' = "ok"
    /\ UNCHANGED <<buffer, input, tool, shiftVars, parseVars, modelVars, formatVars>>
    /\ UNCHANGED <<batchVars, patchVars>>

\* decode_bytecode(&mut bytecode, version, is_dlc)?
DecodeBytecode ==
    /\ pc = "decode" /\ tool = "fs-luau-decompile"
    /\ LET r == decode_bytecode(buffer, info.version, info.is_dlc)
       IN /\ buffer' = r.buf
          /\ res' = r.res
          /\ panicked' = r.panic
    /\ pc' = "done"
    /\ UNCHANGED <<input, decodeVars, shiftVars, parseVars, modelVars, formatVars>>
    /\ UNCHANGED <<batchVars, patchVars>>

\* decompile up to the call of decode (fs-luajit-decompile main.rs:55-62)
LuajitCheck ==
    /\ pc = "start" /\ tool = "fs-luajit-decompile"
    /\ IF is_valid(buffer).panic
       THEN panicked' = TRUE /\ pc' = "done" /\ UNCHANGED res
       ELSE IF ~is_valid(buffer).val
       THEN panicked' = FALSE /\ pc' = "done" /\ res' = "err"
       ELSE IF is_encoded(buffer).panic
       THEN panicked' = TRUE /\ pc' = "done" /\ UNCHANGED res
       ELSE IF is_encoded(buffer).val
       THEN panicked' = FALSE /\ pc' = "decode" /\ UNCHANGED res
       ELSE panicked' = FALSE /\ pc' = "done" /\ res' = "ok"
    /\ UNCHANGED <<buffer, input, decodeVars, shiftVars, parseVars, modelVars, formatVars>>
    /\ UNCHANGED <<batchVars, patchVars>>

\* decode(&mut file_buffer)?
LuajitDecode ==
    /\ pc = "decode" /\ tool = "fs-luajit-decompile"
    /\ LET r == luajit_decode(buffer)
       IN /\ buffer' = r.buf
          /\ res' = r.res
          /\ panicked' = r.panic
    /\ pc' = "done"
    /\ UNCHANGED <<input, decodeVars, shiftVars, parseVars, modelVars, formatVars>>
    /\ UNCHANGED <<batchVars, patchVars>>

NextDecode == GetBytecodeInfo \/ DecodeBytecode \/ LuajitCheck \/ LuajitDecode

SpecDecode == InitDecode /\ [][NextDecode]_vars

\* The keys of the two catalogs (lib.rs:194-247).
LuauKeys == {<<3, FALSE>>, <<6, FALSE>>, <<3, TRUE>>, <<6, TRUE>>}
LuajitKeys == {3, 4}

\* The file was detected as encoded and its key has no catalog entry.
KeyMissing ==
    \/ /\ tool = "fs-luau-decompile" /\ info.is_encoded
       /\ <<info.version, info.is_dlc>> \notin LuauKeys
    \/ /\ tool = "fs-luajit-decompile" /\ Len(input) >= 5
       /\ is_valid(input).val /\ is_encoded(input).val /\ input[4] \notin LuajitKeys

\* C3: when the detected key has no entry in the byteshift table catalog,
\* decoding ends with an error and the buffer is exactly as it was handed in
\* (nothing shifted, nothing removed).
C3_UnknownKeyIsError ==
    (pc = "done" /\ KeyMissing) => (res = "err" /\ buffer = input /\ ~panicked)

\* An encoded file with an unknown key went through the decode step.
C3_Witness ==
    /\ pc = "done" /\ KeyMissing /\ res = "err"
    /\ Len(input) > 5

(***************************************************************************)
(* Option<T>: None is the empty tuple, Some(x) the one-element tuple       *)
(***************************************************************************)
None == <<>>
Some(x) == <<x>>
is_some(o) == o # <<>>
unwrap(o) == o[1]

(***************************************************************************)
(* nom primitives over (input, offset).  A parser yields                   *)
(*   [st |-> "ok" | "err" | "panic", pos |-> next offset, val |-> value]   *)
(* (and "abort" where an allocation is refused).                           *)
(* "err" is nom's Err (Error or Incomplete): parse_bytecode_info maps      *)
(* either to an anyhow error.                                              *)
(***************************************************************************)
Ok(p, v) == [st |-> "ok", pos |-> p, val |-> v]
Err(p) == [st |-> "err", pos |-> p, val |-> 0]
Panic(p) == [st |-> "panic", pos |-> p, val |-> 0]
AllocAbort(p) == [st |-> "abort", pos |-> p, val |-> 0]
Fail(r) == r.st # "ok"

\* `let r = e; F(r)` with e evaluated once, whatever the evaluation order
\* of TLC: r ranges over the one-element set {e}.
Bind(e, F(_)) == CHOOSE v \in {F(r) : r \in {e}} : TRUE

\* `let r = e?; F(r)`: the first failure is the result
AndThen(e, F(_)) == Bind(e, LAMBDA r : IF Fail(r) THEN r ELSE F(r))

\* number::complete::le_u8
le_u8(b, pos) == IF pos < Len(b) THEN Ok(pos + 1, b[pos + 1]) ELSE Err(pos)

\* number::complete::le_u32 (little endian)
le_u32(b, pos) ==
    IF pos + 4 <= Len(b)
    THEN Ok(pos + 4, b[pos + 1] + 256 * b[pos + 2] + 65536 * b[pos + 3]
                       + 16777216 * b[pos + 4])
    ELSE Err(pos)

\* nom_leb128::leb128_usize: at most 10 bytes, the last one without bit 7
Leb128MaxBytes == 10

RECURSIVE leb128_len(_, _, _)
leb128_len(b, pos, k) ==
    IF k >= Leb128MaxBytes \/ pos + k >= Len(b) THEN 0
    ELSE IF b[pos + k + 1] < 128 THEN k + 1
    ELSE leb128_len(b, pos, k + 1)

RECURSIVE leb128_value(_, _, _)
leb128_value(b, pos, n) ==
    IF n = 0 THEN 0
    ELSE (b[pos + 1] % 128) + 128 * leb128_value(b, pos + 1, n - 1)

leb128_usize(b, pos) ==
    LET n == leb128_len(b, pos, 0)
    IN IF n = 0 THEN Err(pos) ELSE Ok(pos + n, leb128_value(b, pos, n))

\* bytes::complete::take(length)
take(b, pos, length) ==
    IF pos + length <= Len(b)
    THEN Ok(pos + length, SubSeq(b, pos + 1, pos + length))
    ELSE Err(pos)

\* multi::count(le_u8, n) and multi::count(le_u32, n)
count_u8(b, pos, n) == take(b, pos, n)

count_u32(b, pos, n) ==
    IF pos + 4 * n <= Len(b)
    THEN Ok(pos + 4 * n, [k \in 1..n |-> le_u32(b, pos + 4 * (k - 1)).val])
    ELSE Err(pos)

\* multi::count(le_u32, n) where only the number of words is kept
\* (the instruction list: `instructions.len()` is its only use)
skip_u32(b, pos, n) ==
    IF pos + 4 * n <= Len(b) THEN Ok(pos + 4 * n, n) ELSE Err(pos)

\* multi::count(leb128_usize, n)
RECURSIVE count_leb128(_, _, _)
count_leb128(b, pos, n) ==
    IF n = 0 THEN Ok(pos, <<>>)
    ELSE AndThen(leb128_usize(b, pos), LAMBDA r :
         AndThen(count_leb128(b, r.pos, n - 1), LAMBDA rest :
         Ok(rest.pos, <<r.val>> \o rest.val)))

\* util.rs parse_string
parse_string(b, pos) ==
    AndThen(leb128_usize(b, pos), LAMBDA l : take(b, l.pos, l.val))

\* multi::count(parse_string, n)
RECURSIVE count_string(_, _, _)
count_string(b, pos, n) ==
    IF n = 0 THEN Ok(pos, <<>>)
    ELSE AndThen(parse_string(b, pos), LAMBDA r :
         AndThen(count_string(b, r.pos, n - 1), LAMBDA rest :
         Ok(rest.pos, <<r.val>> \o rest.val)))

\* util.rs parse_list, by element parser
parse_list_string(b, pos) ==
    AndThen(leb128_usize(b, pos), LAMBDA l : count_string(b, l.pos, l.val))

parse_list_u8(b, pos) ==
    AndThen(leb128_usize(b, pos), LAMBDA l : count_u8(b, l.pos, l.val))

parse_list_u32(b, pos) ==
    AndThen(leb128_usize(b, pos), LAMBDA l : skip_u32(b, l.pos, l.val))

parse_list_leb128(b, pos) ==
    AndThen(leb128_usize(b, pos), LAMBDA l : count_leb128(b, l.pos, l.val))

\* multi::many_till(leb128_usize, char('\0')): the terminator is tried first
RECURSIVE many_till_nul(_, _)
many_till_nul(b, pos) ==
    IF pos < Len(b) /\ b[pos + 1] = 0 THEN Ok(pos + 1, 0)
    ELSE AndThen(leb128_usize(b, pos), LAMBDA r : many_till_nul(b, r.pos))

\* std::str::from_utf8(..).is_ok(), for the bytes the inputs use: 7-bit
\* bytes are valid, 0xF8..0xFF never occur in UTF-8.
Utf8Valid(bytes) == \A k \in 1..Len(bytes) : bytes[k] < 128

\* "NOT_FOUND" and "INVALID_UTF8" as bytes
NOT_FOUND == <<78, 79, 84, 95, 70, 79, 85, 78, 68>>
INVALID_UTF8 == <<73, 78, 86, 65, 76, 73, 68, 95, 85, 84, 70, 56>>

(***************************************************************************)
(* luau/constant.rs is not among the sources: Constant::parse is modelled  *)
(* from the Luau container format (a tag byte, then a payload whose size   *)
(* the tag decides).                                                      *)
(***************************************************************************)
Constant_parse(b, pos) ==
    AndThen(le_u8(b, pos), LAMBDA t :
        IF t.val = 0 THEN Ok(t.pos, 0)                      \* nil
        ELSE IF t.val = 1 THEN le_u8(b, t.pos)              \* boolean
        ELSE IF t.val = 2 THEN take(b, t.pos, 8)            \* number (f64)
        ELSE IF t.val = 3 THEN leb128_usize(b, t.pos)       \* string index
        ELSE IF t.val = 4 THEN take(b, t.pos, 4)            \* import id
        ELSE IF t.val = 5 THEN parse_list_leb128(b, t.pos)  \* table shape
        ELSE IF t.val = 6 THEN leb128_usize(b, t.pos)       \* closure index
        ELSE IF t.val = 7 THEN take(b, t.pos, 16)           \* vector
        ELSE Err(pos))

RECURSIVE count_constant(_, _, _)
count_constant(b, pos, n) ==
    IF n = 0 THEN Ok(pos, 0)
    ELSE AndThen(Constant_parse(b, pos), LAMBDA r : count_constant(b, r.pos, n - 1))

parse_list_constant(b, pos) ==
    AndThen(leb128_usize(b, pos), LAMBDA l : count_constant(b, l.pos, l.val))

(***************************************************************************)
(* luau/prototype.rs: Prototype, Local, get_locals, get_parameters         *)
(***************************************************************************)
Local(n, s, e, r) == [name |-> n, scope_start |-> s, scope_end |-> e, register |-> r]

Proto(n, ls, us, fs) == [name |-> n, locals |-> ls, upvalues |-> us, file_scope |-> fs]

\* iter().filter(pred).collect()
RECURSIVE filter_locals(_, _)
filter_locals(list, params) ==
    IF list = <<>> THEN <<>>
    ELSE LET rest == filter_locals(Tail(list), params)
         IN IF (Head(list).scope_start = 0) = params THEN <<Head(list)>> \o rest
            ELSE rest

\* slice::sort_by on one integer key: a stable sort
RECURSIVE insert_by(_, _, _)
insert_by(x, sorted, key) ==
    IF sorted = <<>> THEN <<x>>
    ELSE IF x[key] < Head(sorted)[key] THEN <<x>> \o sorted
    ELSE <<Head(sorted)>> \o insert_by(x, Tail(sorted), key)

\* the filtered list left in the order of the debug info (no sort)
sort_by_as_given(list, key) == list

RECURSIVE sort_by(_, _)
sort_by(list, key) ==
    IF list = <<>> THEN <<>>
    ELSE Bind(sort_by(SubSeq(list, 1, Len(list) - 1), key),
              LAMBDA sorted : insert_by(list[Len(list)], sorted, key))

names_of(list) == [k \in 1..Len(list) |-> list[k].name]

get_locals(proto) == names_of(sort_by(filter_locals(proto.locals, FALSE), "scope_start"))

get_parameters(proto) == names_of(sort_by(filter_locals(proto.locals, TRUE), "register"))

(***************************************************************************)
(* luau/prototype.rs: Prototype::parse_bytecode                            *)
(***************************************************************************)
RECURSIVE Pow2(_)
Pow2(n) == IF n = 0 THEN 1 ELSE 2 * Pow2(n - 1)

\* The largest interval count whose 4-byte values a buffer of the model
\* could hold; a larger count is a short read whatever its exact value.
IntervalCap == 1048576

\* ((instructions.len() - 1) >> line_gap_log2) + 1 on a 64-bit usize.
\* With overflow checks (a debug build), 0 - 1 and a shift by 64 or more
\* panic; without them (a release build) 0 - 1 wraps to 2^64 - 1, the shift
\* amount is taken mod 64 and the final + 1 wraps.
intervals_of(n, gap, checks) ==
    IF checks /\ (n = 0 \/ gap >= 64) THEN Panic(0)
    ELSE LET g == gap % 64
         IN IF n = 0
            THEN IF g = 0 THEN Ok(0, 0)
                 ELSE IF 64 - g <= 20 THEN Ok(0, Pow2(64 - g))
                 ELSE Ok(0, IntervalCap)
            ELSE IF g >= 30 THEN Ok(0, 1)
            ELSE Ok(0, ((n - 1) \div Pow2(g)) + 1)

\* symbol_table[index - 1], read as a string: a panic when out of range
symbol_at(symtab, index, pos) ==
    IF index - 1 >= Len(symtab) THEN Panic(pos) ELSE Ok(pos, symtab[index])

\* prototype.rs:152-170 with an unnamed entry ending at its name index:
\* its scope and register are left in the stream
parse_local_short(b, pos, symtab) ==
    AndThen(leb128_usize(b, pos), LAMBDA index :
        IF index.val = 0 THEN Ok(index.pos, None)
        ELSE
        AndThen(symbol_at(symtab, index.val, index.pos), LAMBDA e :
        AndThen(leb128_usize(b, e.pos), LAMBDA scope_start :
        AndThen(leb128_usize(b, scope_start.pos), LAMBDA scope_end :
        AndThen(le_u8(b, scope_end.pos), LAMBDA register :
        Ok(register.pos,
           Some(Local(IF Utf8Valid(e.val) THEN e.val ELSE NOT_FOUND,
                      scope_start.val, scope_end.val, register.val))))))))

\* one round of the `for _ in 0..num_locals` loop (prototype.rs:152-170):
\* the Local is Some(..) when the entry has a name
parse_local(b, pos, symtab) ==
    AndThen(leb128_usize(b, pos), LAMBDA index :
    AndThen(IF index.val = 0 THEN Ok(index.pos, None)
            ELSE AndThen(symbol_at(symtab, index.val, index.pos), LAMBDA e :
                     Ok(e.pos, Some(IF Utf8Valid(e.val) THEN e.val ELSE NOT_FOUND))),
            LAMBDA name :
    AndThen(leb128_usize(b, name.pos), LAMBDA scope_start :
    AndThen(leb128_usize(b, scope_start.pos), LAMBDA scope_end :
    AndThen(le_u8(b, scope_end.pos), LAMBDA register :
    Ok(register.pos,
       IF is_some(name.val)
       THEN Some(Local(unwrap(name.val), scope_start.val, scope_end.val, register.val))
       ELSE None))))))

RECURSIVE parse_locals(_, _, _, _, _)
parse_locals(b, pos, k, symtab, locals) ==
    IF k = 0 THEN Ok(pos, locals)
    ELSE AndThen(parse_local(b, pos, symtab), LAMBDA l :
             parse_locals(b, l.pos, k - 1, symtab, locals \o l.val))

\* the `for _ in 0..num_upvalues` loop (prototype.rs:183-191)
RECURSIVE parse_upvalues(_, _, _, _, _)
parse_upvalues(b, pos, k, symtab, upvalues) ==
    IF k = 0 THEN Ok(pos, upvalues)
    ELSE AndThen(leb128_usize(b, pos), LAMBDA index :
         AndThen(IF index.val = 0 THEN Ok(index.pos, <<>>)
                 ELSE AndThen(symbol_at(symtab, index.val, index.pos), LAMBDA e :
                          Ok(e.pos, <<IF Utf8Valid(e.val) THEN e.val ELSE NOT_FOUND>>)),
                 LAMBDA name :
         parse_upvalues(b, name.pos, k - 1, symtab, upvalues \o name.val)))

\* prototype.rs:81-88
prototype_name(symtab, prototype_name_index, pos) ==
    IF prototype_name_index = 0 THEN Ok(pos, None)
    ELSE AndThen(symbol_at(symtab, prototype_name_index, pos), LAMBDA e :
             Ok(pos, IF Utf8Valid(e.val) THEN Some(e.val) ELSE None))

\* prototype.rs:61-73: the fixed header and, from version 4, flags and type info
parse_header(b, pos, version) ==
    AndThen(count_u8(b, pos, 4), LAMBDA header :
        IF version >= 4
        THEN AndThen(le_u8(b, header.pos), LAMBDA flags : parse_list_u8(b, flags.pos))
        ELSE header)

\* prototype.rs:76-79: constants, child functions, line defined, name index
parse_name_index(b, pos) ==
    AndThen(parse_list_constant(b, pos), LAMBDA constants :
    AndThen(parse_list_leb128(b, constants.pos), LAMBDA functions :
    AndThen(leb128_usize(b, functions.pos), LAMBDA line_defined :
    leb128_usize(b, line_defined.pos))))

\* prototype.rs:94-133: the value is file_scope_start
parse_line_info(b, pos, n_instructions, checks) ==
    AndThen(le_u8(b, pos), LAMBDA has_line_info :
        IF has_line_info.val = 0 THEN Ok(has_line_info.pos, 0)
        ELSE
        AndThen(le_u8(b, has_line_info.pos), LAMBDA line_gap_log2 :
        AndThen(count_u8(b, line_gap_log2.pos, n_instructions), LAMBDA line_info_delta :
        AndThen(intervals_of(n_instructions, line_gap_log2.val, checks), LAMBDA intervals :
        AndThen(count_u32(b, line_info_delta.pos, intervals.val), LAMBDA abs_line_info_delta :
        Ok(abs_line_info_delta.pos,
           IF Len(abs_line_info_delta.val) > 0
           THEN abs_line_info_delta.val[Len(abs_line_info_delta.val)]
           ELSE 0))))))

\* the 7-bit groups of the LEB128 number of n bytes at pos, the least
\* significant first
leb128_groups(b, pos, n) == [k \in 1..n |-> b[pos + k] % 128]

\* the groups of m times the number (m < 128)
RECURSIVE groups_times(_, _, _)
groups_times(g, m, carry) ==
    IF g = <<>> THEN (IF carry = 0 THEN <<>> ELSE <<carry>>)
    ELSE <<(Head(g) * m + carry) % 128>>
         \o groups_times(Tail(g), m, (Head(g) * m + carry) \div 128)

\* the number is at least 2^e
groups_reach(g, e) ==
    \E k \in 1..Len(g) : \/ k - 1 > e \div 7 /\ g[k] > 0
                         \/ k - 1 = e \div 7 /\ g[k] >= Pow2(e % 7)

\* size_of::<Local>() and size_of::<String>() in 8-byte words
LocalWords == 6
StringWords == 3

\* what the allocator does with a request depends on the machine (its
\* memory, its swap, its overcommit mode): a request of up to 2^GrantedBits
\* words (1 GiB) is taken as granted on every machine, one of 2^AddressBits
\* words or more (the 2^47 bytes of user address space) as refused on
\* every machine, and one in between is granted or refused as the machine
\* decides
GrantedBits == 27
AddressBits == 44

\* a granted count of 2^31 or more is kept as 2^31 - 1: the loop over the
\* entries ends at the first entry that fails, and no buffer holds that
\* many entries
MaxCount == 2147483647

\* `leb128_usize(input)?` for a count and `Vec::with_capacity(count)` for
\* elements of the given size: a count of more than isize::MAX bytes
\* panics (capacity overflow), one the allocator refuses aborts the
\* process; the value is the count.  grants is the machine's decision on a
\* request between the two limits
with_capacity(b, pos, words, grants) ==
    Bind(leb128_len(b, pos, 0), LAMBDA n :
        IF n = 0 THEN Err(pos)
        ELSE Bind(groups_times(leb128_groups(b, pos, n), words, 0), LAMBDA request :
            IF groups_reach(request, 60) THEN Panic(pos + n)
            ELSE IF groups_reach(request, AddressBits) THEN AllocAbort(pos + n)
            ELSE IF groups_reach(request, GrantedBits) /\ ~grants THEN AllocAbort(pos + n)
            ELSE IF groups_reach(leb128_groups(b, pos, n), 31)
            THEN Ok(pos + n, MaxCount)
            ELSE leb128_usize(b, pos)))

\* prototype.rs:135-192: the value is <<locals, upvalues>>
parse_debug_info(b, pos, symtab, grants) ==
    AndThen(le_u8(b, pos), LAMBDA debug_info :
        IF debug_info.val = 0 THEN Ok(debug_info.pos, <<<<>>, <<>>>>)
        ELSE
        AndThen(with_capacity(b, debug_info.pos, LocalWords, grants), LAMBDA num_locals :
        AndThen(parse_locals(b, num_locals.pos, num_locals.val, symtab, <<>>), LAMBDA locals :
        AndThen(with_capacity(b, locals.pos, StringWords, grants), LAMBDA num_upvalues :
        AndThen(parse_upvalues(b, num_upvalues.pos, num_upvalues.val, symtab, <<>>),
                LAMBDA upvalues :
        Ok(upvalues.pos, <<locals.val, upvalues.val>>))))))

\* prototype.rs:56-204
parse_bytecode(b, pos, version, symtab, checks, grants) ==
    AndThen(parse_header(b, pos, version), LAMBDA header :
    AndThen(parse_list_u32(b, header.pos), LAMBDA instructions :
    AndThen(parse_name_index(b, instructions.pos), LAMBDA name_index :
    AndThen(prototype_name(symtab, name_index.val, name_index.pos), LAMBDA name :
    AndThen(parse_line_info(b, name.pos, instructions.val, checks), LAMBDA file_scope_start :
    AndThen(parse_debug_info(b, file_scope_start.pos, symtab, grants), LAMBDA debug :
    LET file_scope_lines == 0
        file_scope ==
            IF is_some(name.val)
            THEN Some(<<file_scope_start.val,
                        file_scope_start.val + file_scope_lines + 1>>)
            ELSE None
    IN Ok(debug.pos, Proto(name.val, debug.val[1], debug.val[2], file_scope))))))))

(***************************************************************************)
(* The container format, written out: the bytes of a module description.   *)
(* A buffer is well formed when it is the whole encoding of a description  *)
(* whose name indices are within the symbol table.                         *)
(***************************************************************************)
EncLeb(n) == IF n < 128 THEN <<n>> ELSE <<128 + (n % 128), n \div 128>>

EncU32(n) == <<n % 256, (n \div 256) % 256, 0, 0>>

RECURSIVE Flatten(_)
Flatten(ss) == IF ss = <<>> THEN <<>> ELSE Head(ss) \o Flatten(Tail(ss))

EncList(items) == EncLeb(Len(items)) \o Flatten(items)

\* the count of a list of the debug info: the length of the list, or the
\* bytes the description gives for it
EncCount(debug, field, n) == IF field \in DOMAIN debug THEN debug[field] ELSE EncLeb(n)

EncLocal(l) == EncLeb(l[1]) \o EncLeb(l[2]) \o EncLeb(l[3]) \o <<l[4]>>

EncProto(v, d) ==
    <<2, 1, 0, 0>>
    \o (IF v >= 4 THEN <<0>> \o EncList(<<>>) ELSE <<>>)
    \o EncList([k \in 1..d.instrs |-> <<k, 0, 0, 64>>])
    \o d.consts
    \o EncList(<<>>)
    \o EncLeb(1)
    \o EncLeb(d.name_index)
    \o (IF d.line = None THEN <<0>>
        ELSE <<1, unwrap(d.line).gap>>
             \o [k \in 1..d.instrs |-> 1]
             \o Flatten([k \in 1..Len(unwrap(d.line).abs) |-> EncU32(unwrap(d.line).abs[k])]))
    \o (IF d.debug = None THEN <<0>>
        ELSE <<1>>
             \o EncCount(unwrap(d.debug), "num_locals", Len(unwrap(d.debug).locals))
             \o Flatten([k \in 1..Len(unwrap(d.debug).locals) |->
                            EncLocal(unwrap(d.debug).locals[k])])
             \o EncCount(unwrap(d.debug), "num_upvalues", Len(unwrap(d.debug).upvalues))
             \o Flatten([k \in 1..Len(unwrap(d.debug).upvalues) |->
                            EncLeb(unwrap(d.debug).upvalues[k])]))

EncModule(d) ==
    <<d.version>>
    \o (IF d.version >= 4 THEN <<d.tv>> ELSE <<>>)
    \o EncList([k \in 1..Len(d.symbols) |-> EncLeb(Len(d.symbols[k])) \o d.symbols[k]])
    \o (IF d.version >= 4 /\ d.tv = 3 THEN <<5, 0>> ELSE <<>>)
    \o EncList([k \in 1..Len(d.protos) |-> EncProto(d.version, d.protos[k])])
    \o EncLeb(d.main)

PDesc(n, i, c, l, d) ==
    [name_index |-> n, instrs |-> i, consts |-> c, line |-> l, debug |-> d]

NoConsts == <<0>>

P_anon == PDesc(0, 0, NoConsts, None, None)

P_named ==
    PDesc(1, 3, NoConsts, Some([gap |-> 1, abs |-> <<4, 9>>]),
          Some([locals |-> <<<<2, 0, 5, 1>>, <<1, 0, 5, 0>>, <<0, 2, 4, 2>>, <<2, 3, 4, 3>>>>,
                upvalues |-> <<2, 0, 1>>]))

P_consts ==
    PDesc(2, 1, <<3, 0, 1, 1, 3, 2>>, Some([gap |-> 0, abs |-> <<7>>]),
          Some([locals |-> <<>>, upvalues |-> <<>>]))

P_badname == PDesc(3, 0, NoConsts, None, None)

P_badlocal ==
    PDesc(1, 0, NoConsts, None, Some([locals |-> <<<<1, 0, 1, 0>>, <<3, 0, 1, 1>>>>,
                                      upvalues |-> <<>>]))

P_badupvalue ==
    PDesc(0, 0, NoConsts, None, Some([locals |-> <<>>, upvalues |-> <<1, 4>>]))

P_noinstr_lines == PDesc(1, 0, NoConsts, Some([gap |-> 0, abs |-> <<>>]), None)

P_noinstr_gap == PDesc(1, 0, NoConsts, Some([gap |-> 1, abs |-> <<>>]), None)

\* debug info that announces more entries than it holds: 1000 and
\* 2^31 - 1 locals, 2^31 - 1 upvalues, 2^63 - 1 locals
P_manylocals ==
    PDesc(0, 0, NoConsts, None,
          Some([locals |-> <<>>, upvalues |-> <<>>, num_locals |-> <<232, 7>>]))

P_hugelocals ==
    PDesc(0, 0, NoConsts, None,
          Some([locals |-> <<>>, upvalues |-> <<>>,
                num_locals |-> <<255, 255, 255, 255, 7>>]))

P_hugeupvalues ==
    PDesc(0, 0, NoConsts, None,
          Some([locals |-> <<>>, upvalues |-> <<>>,
                num_upvalues |-> <<255, 255, 255, 255, 7>>]))

P_overflow ==
    PDesc(0, 0, NoConsts, None,
          Some([locals |-> <<>>, upvalues |-> <<>>,
                num_locals |-> <<255, 255, 255, 255, 255, 255, 255, 255, 127>>]))

ProtoLists ==
    { <<>>, <<P_anon>>, <<P_named>>, <<P_anon, P_named>>, <<P_consts, P_anon>>,
      <<P_badname>>, <<P_named, P_badlocal>>, <<P_badupvalue>>, <<P_noinstr_lines>>,
      <<P_noinstr_gap>>, <<P_manylocals>>, <<P_hugelocals>>, <<P_hugeupvalues>>,
      <<P_overflow>> }

\* "Foo", "x" and, in the second table, a string that is not UTF-8
SymbolTables == { <<<<70, 111, 111>>, <<120>>>>, <<<<70, 111, 111>>, <<255, 120>>>> }

Versions == {2, 3, 4, 5, 6, 7}

ModuleDescs ==
    { d \in [version : Versions, tv : {0, 3, 4}, symbols : SymbolTables,
             protos : ProtoLists, main : {0}] :
        /\ d.version < 4 => d.tv = 0
        /\ d.tv = 4 => d.protos = <<>> }

\* every name index of the description is 0 or within the symbol table
RECURSIVE IndicesInRange(_, _)
IndicesInRange(ps, n) ==
    IF ps = <<>> THEN TRUE
    ELSE LET p == Head(ps)
         IN /\ p.name_index <= n
            /\ p.debug # None =>
                  /\ \A k \in 1..Len(unwrap(p.debug).locals) : unwrap(p.debug).locals[k][1] <= n
                  /\ \A k \in 1..Len(unwrap(p.debug).upvalues) : unwrap(p.debug).upvalues[k] <= n
            /\ IndicesInRange(Tail(ps), n)

\* the description's line-info sizes agree with its instruction counts
RECURSIVE LineInfoSized(_)
LineInfoSized(ps) ==
    IF ps = <<>> THEN TRUE
    ELSE LET p == Head(ps)
         IN /\ p.line # None =>
                  /\ p.instrs > 0
                  /\ Len(unwrap(p.line).abs) =
                         ((p.instrs - 1) \div Pow2(unwrap(p.line).gap)) + 1
            /\ LineInfoSized(Tail(ps))

\* the debug info announces the entries it holds
CountsAgree(ps) ==
    \A k \in 1..Len(ps) :
        ps[k].debug # None => DOMAIN unwrap(ps[k].debug) = {"locals", "upvalues"}

WellFormed ==
    /\ buffer = input
    /\ desc.tv <= 3
    /\ CountsAgree(desc.protos)
    /\ IndicesInRange(desc.protos, Len(desc.symbols))
    /\ LineInfoSized(desc.protos)

(***************************************************************************)
(* luau/util.rs: parse_input, parse_bytecode_info, u8_vec_to_string_vec    *)
(***************************************************************************)
u8_vec_to_string_vec(list) ==
    [k \in 1..Len(list) |-> IF Utf8Valid(list[k]) THEN list[k] ELSE INVALID_UTF8]

\* `if version < 3 && version > 6 { panic!(..) }` (util.rs:46)
unsupported_version(v) == v < 3 /\ v > 6

\* `if types_version > 3 { panic!(..) }` (util.rs:56)
unsupported_types_version(tv) == tv > 3

InitParse ==
    /\ pc = "version"
    /\ desc \in ModuleDescs
    /\ input = EncModule(desc)
    /\ \E n \in 0..Len(input) : buffer = SubSeq(input, 1, n)
    /\ overflow_checks \in BOOLEAN
    /\ cursor = 0 /\ bc_version = 0 /\ types_version = 0 /\ remaining = 0
    /\ symbol_table = <<>> /\ prototypes = <<>> /\ main = 0
    /\ res = "none" /\ panicked = FALSE
    /\ IdleShift /\ IdleDecode /\ IdleFormat
    /\ IdleBatch /\ IdlePatch

\* How a parser's failure ends parse_bytecode_info: Err is returned, a
\* panic unwinds, a failed allocation aborts the process.
Stop(r) ==
    /\ pc' = "done"
    /\ res' = IF r.st \in {"err", "abort"} THEN r.st ELSE res
    /\ panicked' = (r.st = "panic")

\* util.rs:44-58
ParseVersion ==
    /\ pc = "version"
    /\ LET v == le_u8(buffer, cursor)
           tv == IF Fail(v) THEN v
                 ELSE IF unsupported_version(v.val) THEN Panic(v.pos)
                 ELSE IF v.val >= 4 THEN le_u8(buffer, v.pos)
                 ELSE Ok(v.pos, 0)
           r == IF Fail(tv) THEN tv
                ELSE IF unsupported_types_version(tv.val) THEN Panic(tv.pos)
                ELSE tv
       IN IF Fail(r)
          THEN Stop(r) /\ UNCHANGED <<cursor, bc_version, types_version>>
          ELSE /\ bc_version' = v.val
               /\ types_version' = tv.val
               /\ cursor' = r.pos
               /\ pc' = "symbols"
               /\ UNCHANGED <<res, panicked>>
    /\ UNCHANGED <<buffer, input, desc, overflow_checks, remaining, modelVars,
                   shiftVars, decodeVars, formatVars>>
    /\ UNCHANGED <<batchVars, patchVars>>

\* util.rs:60
ParseSymbolTable ==
    /\ pc = "symbols"
    /\ LET r == parse_list_string(buffer, cursor)
       IN IF Fail(r)
          THEN Stop(r) /\ UNCHANGED <<cursor, symbol_table>>
          ELSE /\ symbol_table' = r.val
               /\ cursor' = r.pos
               /\ pc' = "types"
               /\ UNCHANGED <<res, panicked>>
    /\ UNCHANGED <<buffer, input, desc, overflow_checks, bc_version, types_version,
                   remaining, prototypes, main, shiftVars, decodeVars, formatVars>>
    /\ UNCHANGED <<batchVars, patchVars>>

\* util.rs:62-68: the discarded type block, then the prototype count
ParseTypes ==
    /\ pc = "types"
    /\ LET t == IF types_version = 3 THEN many_till_nul(buffer, cursor) ELSE Ok(cursor, 0)
           r == IF Fail(t) THEN t ELSE leb128_usize(buffer, t.pos)
       IN IF Fail(r)
          THEN Stop(r) /\ UNCHANGED <<cursor, remaining>>
          ELSE /\ remaining' = r.val
               /\ cursor' = r.pos
               /\ pc' = "protos"
               /\ UNCHANGED <<res, panicked>>
    /\ UNCHANGED <<buffer, input, desc, overflow_checks, bc_version, types_version,
                   modelVars, shiftVars, decodeVars, formatVars>>
    /\ UNCHANGED <<batchVars, patchVars>>

\* util.rs:68-70: one round of count(Prototype::parse_bytecode, length),
\* on a machine that grants a large allocation or on one that refuses it
ParsePrototype ==
    /\ pc = "protos" /\ remaining > 0
    /\ \E grants \in BOOLEAN :
       LET r == parse_bytecode(buffer, cursor, bc_version, symbol_table, overflow_checks,
                               grants)
       IN IF Fail(r)
          THEN Stop(r) /\ UNCHANGED <<cursor, remaining, prototypes>>
          ELSE /\ prototypes' = Append(prototypes, r.val)
               /\ remaining' = remaining - 1
               /\ cursor' = r.pos
               /\ UNCHANGED <<pc, res, panicked>>
    /\ UNCHANGED <<buffer, input, desc, overflow_checks, bc_version, types_version,
                   symbol_table, main, shiftVars, decodeVars, formatVars>>
    /\ UNCHANGED <<batchVars, patchVars>>

\* util.rs:71-76 and parse_bytecode_info's Ok
ParseMain ==
    /\ pc = "protos" /\ remaining = 0
    /\ LET r == leb128_usize(buffer, cursor)
       IN IF Fail(r)
          THEN Stop(r) /\ UNCHANGED <<cursor, main, symbol_table>>
          ELSE /\ main' = r.val
               /\ symbol_table' = u8_vec_to_string_vec(symbol_table)
               /\ cursor' = r.pos
               /\ pc' = "done"
               /\ res' = "ok"
               /\ UNCHANGED panicked
    /\ UNCHANGED <<buffer, input, desc, overflow_checks, bc_version, types_version,
                   remaining, prototypes, shiftVars, decodeVars, formatVars>>
    /\ UNCHANGED <<batchVars, patchVars>>

NextParse == ParseVersion \/ ParseSymbolTable \/ ParseTypes \/ ParsePrototype \/ ParseMain

SpecParse == InitParse /\ [][NextParse]_vars

\* C4 as stated: a buffer whose version byte is outside {3, 4, 6} is rejected,
\* and a well-formed buffer of bc_version 3, 4 or 6 is accepted.
C4_AsStated ==
    (pc = "done" /\ Len(buffer) > 0) =>
        /\ buffer[1] \notin {3, 4, 6} => (res = "err" \/ panicked)
        /\ (buffer[1] \in {3, 4, 6} /\ WellFormed) => res = "ok"

\* C5 as stated: a short read (the buffer is cut, or a count announces more
\* entries than follow) or a symbol index past the symbol table makes the
\* decoder return an error; it never panics.
C5_AsStated ==
    pc = "done" =>
        /\ ~panicked
        /\ (\/ buffer # input
            \/ ~IndicesInRange(desc.protos, Len(desc.symbols))
            \/ ~CountsAgree(desc.protos)) =>
               res = "err"

\* ceil(n / 2^g)
ceil_intervals(n, g) == (n + Pow2(g) - 1) \div Pow2(g)

\* every line-info block of the description holds one absolute line value
\* per interval, ceil(instruction count / 2^gap) of them
RECURSIVE LineInfoCeil(_)
LineInfoCeil(ps) ==
    IF ps = <<>> THEN TRUE
    ELSE /\ Head(ps).line # None =>
               Len(unwrap(Head(ps).line).abs)
                   = ceil_intervals(Head(ps).instrs, unwrap(Head(ps).line).gap)
         /\ LineInfoCeil(Tail(ps))

\* C23 as stated: a module whose line-info blocks hold exactly
\* ceil(instruction count / 2^gap) absolute values each, for any
\* instruction count including 0, is read to its end: the decoder takes
\* that many values, with no arithmetic underflow or overflow.
C23_AsStated ==
    (/\ pc = "done" /\ buffer = input /\ desc.tv <= 3
     /\ IndicesInRange(desc.protos, Len(desc.symbols))
     /\ CountsAgree(desc.protos)
     /\ LineInfoCeil(desc.protos)) =>
        /\ ~panicked /\ res = "ok"
        /\ cursor = Len(input)

\* the names the debug info can refer to: the symbol table as it is
names_as_stored(symbols) == symbols

\* the names the debug info can refer to: from_utf8(..).unwrap_or("NOT_FOUND")
names_as_read(symbols) ==
    [k \in 1..Len(symbols) |-> IF Utf8Valid(symbols[k]) THEN symbols[k] ELSE NOT_FOUND]

\* the locals a debug-info block describes: its entries with a name index
\* other than 0, in order, each with its own scope and register
RECURSIVE visible_locals(_, _)
visible_locals(entries, names) ==
    IF entries = <<>> THEN <<>>
    ELSE (IF Head(entries)[1] = 0 THEN <<>>
          ELSE <<Local(names[Head(entries)[1]], Head(entries)[2], Head(entries)[3],
                       Head(entries)[4])>>)
         \o visible_locals(Tail(entries), names)

RECURSIVE visible_upvalues(_, _)
visible_upvalues(indices, names) ==
    IF indices = <<>> THEN <<>>
    ELSE (IF Head(indices) = 0 THEN <<>> ELSE <<names[Head(indices)]>>)
         \o visible_upvalues(Tail(indices), names)

\* every decoded prototype has the locals and upvalues its debug-info block
\* describes, under a reading of the names
DebugInfoDecoded(names) ==
    /\ Len(prototypes) = Len(desc.protos)
    /\ \A k \in 1..Len(prototypes) :
           /\ prototypes[k].locals =
                  (IF desc.protos[k].debug = None THEN <<>>
                   ELSE visible_locals(unwrap(desc.protos[k].debug).locals, names))
           /\ prototypes[k].upvalues =
                  (IF desc.protos[k].debug = None THEN <<>>
                   ELSE visible_upvalues(unwrap(desc.protos[k].debug).upvalues, names))

\* C24 as stated: a well-formed module is decoded, and each prototype's
\* locals and upvalues are the entries of its debug info with a name index
\* other than 0, each with its own fields and with the symbol-table string
\* at index - 1 as its name.
C24_AsStated ==
    (pc = "done" /\ WellFormed) =>
        /\ res = "ok" /\ ~panicked
        /\ DebugInfoDecoded(names_as_stored(desc.symbols))

\* C24, amended: the same, the name being the symbol-table string at
\* index - 1 when it is valid UTF-8 and "NOT_FOUND" when it is not.
C24_DebugInfo ==
    (pc = "done" /\ WellFormed) =>
        /\ res = "ok" /\ ~panicked
        /\ DebugInfoDecoded(names_as_read(desc.symbols))

\* a decoded prototype whose debug info has an unnamed local between named
\* ones and an unnamed upvalue: the named local after the unnamed one has
\* its own scope and register
C24_Witness ==
    /\ pc = "done" /\ WellFormed /\ res = "ok"
    /\ \E k \in 1..Len(prototypes) :
           /\ desc.protos[k] = P_named
           /\ Len(prototypes[k].locals) = 3
           /\ prototypes[k].locals[3].scope_start = 3
           /\ prototypes[k].locals[3].register = 3
           /\ Len(prototypes[k].upvalues) = 2

(***************************************************************************)
(* Text.  A text buffer is a Vec<u8> holding UTF-8; a String is the same   *)
(* sequence once from_utf8 has accepted it.  The regex classes are given   *)
(* for the ASCII characters the model's texts are written in.              *)
(***************************************************************************)
Lower == {"a", "b", "c", "d", "e", "f", "g", "h", "i", "j", "k", "l", "m",
          "n", "o", "p", "q", "r", "s", "t", "u", "v", "w", "x", "y", "z"}
Upper == {"A", "B", "C", "D", "E", "F", "G", "H", "I", "J", "K", "L", "M",
          "N", "O", "P", "Q", "R", "S", "T", "U", "V", "W", "X", "Y", "Z"}
Digits == {"0", "1", "2", "3", "4", "5", "6", "7", "8", "9"}

\* \w, \s, \d and the class [A-z0-9.]: A-z also spans [ ] ^ _ and, left out
\* here, the backslash and the backquote, which no text of the model holds
is_word(c) == c \in Lower \cup Upper \cup Digits \cup {"_"}
is_space(c) == c \in {" ", "\t", "\n", "\r"}
is_digit(c) == c \in Digits
in_prefix_class(c) ==
    c \in Lower \cup Upper \cup Digits \cup {".", "[", "]", "^", "_"}

\* String::from_utf8(..).is_ok() / BufferExtension::to_string
is_utf8(self) == \A k \in 1..Len(self) : self[k] # "<ff>"

\* self[at..at + find.len()] == find
matches_at(self, at, find) ==
    /\ at + Len(find) <= Len(self)
    /\ \A k \in 1..Len(find) : self[at + k] = find[k]

min_of(S) == CHOOSE x \in S : \A y \in S : x <= y

\* the end of the run of characters of a class that starts at offset s
word_run_end(self, s) == min_of({e \in s..Len(self) : e = Len(self) \/ ~is_word(self[e + 1])})
digit_run_end(self, s) == min_of({e \in s..Len(self) : e = Len(self) \/ ~is_digit(self[e + 1])})

\* the least element of a set of offsets, as an Option
first_of(S) == Bind(S, LAMBDA T : IF T = {} THEN None ELSE Some(min_of(T)))

\* Vec::splice(at..at + del, ins)
splice(self, at, del, ins) ==
    SubSeq(self, 1, at) \o ins \o SubSeq(self, at + del + 1, Len(self))

\* buffer.rs:115-117: windows(bytes.len()).position(|w| w == bytes) on
\* self[offset..].  The slice panics when offset is past the end of self,
\* and windows(0) panics for an empty pattern.
find_bytes_from(self, bytes, offset) ==
    IF offset > Len(self) \/ Len(bytes) = 0 THEN [st |-> "panic", found |-> None]
    ELSE [st |-> "ok",
          found |-> Bind(first_of({j \in offset..(Len(self) - Len(bytes)) :
                                      matches_at(self, j, bytes)}),
                         LAMBDA p : IF is_some(p) THEN Some(unwrap(p) - offset) ELSE None)]

\* buffer.rs find_and_replace: the loop from index i.  The loop condition
\* computes self.len() - find.len(): when find is longer than the buffer
\* the subtraction overflows (a panic with overflow checks; without them it
\* wraps and the slice self[i..i + find.len()] is out of range, a panic too).
RECURSIVE find_and_replace_loop(_, _, _, _)
find_and_replace_loop(self, find, replace, i) ==
    IF Len(find) > Len(self) THEN [buf |-> self, st |-> "panic"]
    ELSE Bind(first_of({j \in i..(Len(self) - Len(find)) : matches_at(self, j, find)}),
              LAMBDA m :
                  IF ~is_some(m) THEN [buf |-> self, st |-> "ok"]
                  ELSE Bind(splice(self, unwrap(m), Len(find), replace),
                            LAMBDA s : find_and_replace_loop(s, find, replace,
                                                             unwrap(m) + Len(replace))))

\* An empty find matches at i and at every later i: each round inserts
\* replace and advances i by its length, so i <= self.len() holds for ever.
find_and_replace(self, find, replace, offset) ==
    Bind(<<self, find, replace>>,
         LAMBDA a :
             IF Len(a[2]) = 0 /\ offset <= Len(a[1]) THEN [buf |-> a[1], st |-> "hang"]
             ELSE IF Len(a[2]) = 0 THEN [buf |-> a[1], st |-> "ok"]
             ELSE find_and_replace_loop(a[1], a[2], a[3], offset))

find_and_replace_string(self, find, replace, offset) ==
    find_and_replace(self, find, replace, offset)

RECURSIVE join(_, _)
join(list, sep) ==
    IF Len(list) = 0 THEN <<>>
    ELSE IF Len(list) = 1 THEN list[1]
    ELSE list[1] \o sep \o join(Tail(list), sep)

\* str::split(","): the pieces between the commas
RECURSIVE split(_, _)
split(s, c) ==
    Bind(first_of({k \in 1..Len(s) : s[k] = c}),
         LAMBDA p : IF ~is_some(p) THEN <<s>>
                    ELSE <<SubSeq(s, 1, unwrap(p) - 1)>>
                         \o split(SubSeq(s, unwrap(p) + 1, Len(s)), c))

\* str::trim
trim(s) ==
    Bind({k \in 1..Len(s) : ~is_space(s[k])},
         LAMBDA K : IF K = {} THEN <<>>
                    ELSE SubSeq(s, min_of(K), CHOOSE x \in K : \A y \in K : y <= x))

\* usize formatted by {}
DigitChars == <<"0", "1", "2", "3", "4", "5", "6", "7", "8", "9">>

RECURSIVE decimal(_)
decimal(n) ==
    IF n < 10 THEN <<DigitChars[n + 1]>>
    ELSE decimal(n \div 10) \o <<DigitChars[(n % 10) + 1]>>

(***************************************************************************)
(* luau/util.rs find_position_of_function and luau/parser.rs               *)
(***************************************************************************)
\* Regex::new on "function \s*([A-z0-9.]+)?" + name + "\(": the name is
\* pasted in unescaped.  The model's names are written with word
\* characters, "." and parentheses: the pattern compiles exactly when the
\* parentheses of the name balance.
regex_compiles(name) ==
    /\ \A k \in 1..Len(name) :
           Cardinality({j \in 1..k : name[j] = ")"}) <= Cardinality({j \in 1..k : name[j] = "("})
    /\ Cardinality({j \in 1..Len(name) : name[j] = ")"})
           = Cardinality({j \in 1..Len(name) : name[j] = "("})

\* what the name matches as a pattern: groups only group
pattern_of(name) == SelectSeq(name, LAMBDA c : c \notin {"(", ")"})

\* the pasted name at offset at: "." matches any character but a newline
name_matches_at(self, at, pat) ==
    /\ at + Len(pat) <= Len(self)
    /\ \A k \in 1..Len(pat) :
           IF pat[k] = "." THEN self[at + k] # "\n" ELSE self[at + k] = pat[k]

\* a match of the whole pattern starts at offset s
function_matches_at(self, s, pat) ==
    /\ matches_at(self, s, <<"f", "u", "n", "c", "t", "i", "o", "n", " ">>)
    /\ \E k \in 0..(Len(self) - s - 9) :
           /\ \A j \in 1..k : is_space(self[s + 9 + j])
           /\ \E m \in 0..(Len(self) - s - 9 - k) :
                  /\ \A j \in 1..m : in_prefix_class(self[s + 9 + k + j])
                  /\ name_matches_at(self, s + 9 + k + m, pat)
                  /\ matches_at(self, s + 9 + k + m + Len(pat), <<"(">>)

\* find_position_of_function reading the text lossily and escaping nothing:
\* no UTF-8 check, and a name that does not compile is searched literally
find_position_unchecked(self, name, offset) ==
    IF offset > Len(self) + 1 THEN [st |-> "panic", found |-> None]
    ELSE [st |-> "ok",
          found |-> Bind(pattern_of(name),
                         LAMBDA pat : first_of({s \in offset..Len(self) :
                                                   function_matches_at(self, s, pat)}))]

\* util.rs:226-250.  After the UTF-8 check and the compilation of the
\* pattern, Regex::captures_at panics (invalid span) for an offset past
\* len + 1; at len + 1 the span is empty and there is no match.
find_position_of_function(self, name, offset) ==
    IF ~is_utf8(self) THEN [st |-> "ok", found |-> None]
    ELSE IF ~regex_compiles(name) THEN [st |-> "ok", found |-> None]
    ELSE IF offset > Len(self) + 1 THEN [st |-> "panic", found |-> None]
    ELSE [st |-> "ok",
          found |-> Bind(pattern_of(name),
                         LAMBDA pat : first_of({s \in offset..Len(self) :
                                                   function_matches_at(self, s, pat)}))]

FunctionParser(n, p, sz, ps, d, dps, dpstr, hs) ==
    [name |-> n, position |-> p, initial_size |-> sz, parameters |-> ps,
     definition |-> d, definition_parameters |-> dps,
     definition_parameters_str |-> dpstr, has_self |-> hs]

\* capture 1 of \((.*?)\) in a line: from the first "(" to the first ")"
\* after it
first_paren_group(definition) ==
    Bind(first_of({k \in 1..Len(definition) : definition[k] = "("}),
         LAMBDA o :
             IF ~is_some(o) THEN None
             ELSE Bind(first_of({k \in (unwrap(o) + 1)..Len(definition) : definition[k] = ")"}),
                       LAMBDA c : IF ~is_some(c) THEN None
                                  ELSE Some(SubSeq(definition, unwrap(o) + 1, unwrap(c) - 1))))

\* parser.rs:132 with the comparison weakened: only a longer textual list
\* is a mismatch
from_fewer_tokens(buf, name, parameters, position, initial_size, definition, group) ==
    Bind(split(group, ","),
         LAMBDA definition_parameters :
             IF Len(group) = 0 \/ Len(definition_parameters) > Len(parameters)
             THEN [buf |-> buf, parser |-> None]
             ELSE [buf |-> splice(buf, position, 0, <<"\r", "\n">>),
                   parser |-> Some(FunctionParser(name, position + 2, initial_size,
                                                  parameters, definition,
                                                  definition_parameters, group, FALSE))])

\* parser.rs:136-138 without the adjustment of position after the splice
from_unadjusted(buf, name, parameters, position, initial_size, definition, group) ==
    Bind(split(group, ","),
         LAMBDA definition_parameters :
             IF Len(group) = 0 \/ Len(definition_parameters) # Len(parameters)
             THEN [buf |-> buf, parser |-> None]
             ELSE [buf |-> splice(buf, position, 0, <<"\r", "\n">>),
                   parser |-> Some(FunctionParser(name, position, initial_size,
                                                  parameters, definition,
                                                  definition_parameters, group, FALSE))])

\* parser.rs:132-149: the arity check, the inserted "\r\n", the parser
from_checked(buf, name, parameters, position, initial_size, definition, group) ==
    Bind(split(group, ","),
         LAMBDA definition_parameters :
             IF Len(group) = 0 \/ Len(definition_parameters) # Len(parameters)
             THEN [buf |-> buf, parser |-> None]
             ELSE [buf |-> splice(buf, position, 0, <<"\r", "\n">>),
                   parser |-> Some(FunctionParser(name, position + 2, initial_size,
                                                  parameters, definition,
                                                  definition_parameters, group, FALSE))])

\* parser.rs:102-130: the site, its line and the parenthesized text.  The
\* call of find_bytes_from at parser.rs:106 has a pattern of one byte and
\* the start of a regex match, which is within the buffer, as its offset;
\* find_position_of_function is called with offset 0 (parser.rs:102).
\* Both return, and only their Options are taken here.
from_located(buf, name, parameters) ==
    Bind(find_position_of_function(buf, name, 0).found,
         LAMBDA p :
             IF ~is_some(p) THEN [buf |-> buf, parser |-> None]
             ELSE Bind(find_bytes_from(buf, <<"\n">>, unwrap(p)).found,
                       LAMBDA sz :
                           IF ~is_some(sz) THEN [buf |-> buf, parser |-> None]
                           ELSE Bind(SubSeq(buf, unwrap(p) + 1, unwrap(p) + unwrap(sz)),
                                     LAMBDA definition :
                                         Bind(first_paren_group(definition),
                                              LAMBDA g :
                                                  IF ~is_some(g) THEN [buf |-> buf, parser |-> None]
                                                  ELSE from_checked(buf, name, parameters, unwrap(p),
                                                                    unwrap(sz), definition, unwrap(g))))))

\* FunctionParser::from
from(buf, proto) ==
    Bind(get_parameters(proto),
         LAMBDA parameters :
             IF ~is_some(proto.name) \/ Len(parameters) = 0
             THEN [buf |-> buf, parser |-> None]
             ELSE from_located(buf, unwrap(proto.name), parameters))

\* parser.rs:40-51: the replacements of the pairs k.. of mapped_parameters
RECURSIVE rename_pairs(_, _, _)
rename_pairs(self, r, k) ==
    IF k > Len(self.definition_parameters) \/ r.st # "ok" THEN r
    ELSE Bind(trim(self.definition_parameters[k]),
              LAMBDA definition_name :
                  IF definition_name = <<"_">> THEN rename_pairs(self, r, k + 1)
                  ELSE Bind(find_and_replace_string(r.buf, definition_name,
                                                    self.parameters[k], self.position),
                            LAMBDA r2 : rename_pairs(self, r2, k + 1)))

\* parser.rs:42-44
has_self_after(self) ==
    \E k \in 1..Len(self.definition_parameters) :
        \/ trim(self.definition_parameters[k]) = <<"s", "e", "l", "f">>
        \/ self.parameters[k] = <<"s", "e", "l", "f">>

\* parser.rs:25-29: the signature "(<text parameters>)" replaced by
\* "(<recovered names>)", from offset 0
rename_signature(self, buf) ==
    find_and_replace_string(buf,
                            <<"(">> \o self.definition_parameters_str \o <<")">>,
                            <<"(">> \o join(self.parameters, <<",", " ">>) \o <<")">>,
                            0)

\* FunctionParser::rename_parameters: the edited buffer and how it ended
rename_parameters(self, buf) ==
    Bind(rename_signature(self, buf), LAMBDA r : rename_pairs(self, r, 1))

\* \b(\w+\.\w+)\( tried at offset s: a word run, ".", a word run, "("
class_path_at(definition, s) ==
    Bind(word_run_end(definition, s),
         LAMBDA e1 :
             IF e1 = s \/ e1 >= Len(definition) THEN None
             ELSE IF definition[e1 + 1] # "." THEN None
             ELSE Bind(word_run_end(definition, e1 + 1),
                       LAMBDA e2 :
                           IF e2 = e1 + 1 \/ e2 >= Len(definition) THEN None
                           ELSE IF definition[e2 + 1] # "(" THEN None
                           ELSE Some(SubSeq(definition, s + 1, e2))))

\* FunctionParser::get_class_path: capture 1 of the leftmost match
get_class_path(definition) ==
    Bind(first_of({s \in 0..(Len(definition) - 1) :
                      /\ (s = 0 \/ ~is_word(definition[s]))
                      /\ is_some(class_path_at(definition, s))}),
         LAMBDA p : IF is_some(p) THEN class_path_at(definition, unwrap(p)) ELSE None)

\* str::replace(".", ":")
replace_dots(s) == [k \in 1..Len(s) |-> IF s[k] = "." THEN ":" ELSE s[k]]

\* FunctionParser::rename_self
rename_self(self, buf) ==
    IF ~self.has_self THEN [buf |-> buf, st |-> "ok"]
    ELSE Bind(get_class_path(self.definition),
              LAMBDA function_path :
                  IF ~is_some(function_path) THEN [buf |-> buf, st |-> "ok"]
                  ELSE IF Len(self.definition_parameters) = 1
                  THEN find_and_replace_string(
                           buf,
                           <<"f", "u", "n", "c", "t", "i", "o", "n", " ">> \o unwrap(function_path) \o <<"(", "s", "e", "l", "f", ")">>,
                           <<"f", "u", "n", "c", "t", "i", "o", "n", " ">> \o replace_dots(unwrap(function_path)) \o <<"(", ")">>,
                           self.position)
                  ELSE find_and_replace_string(
                           buf,
                           <<"f", "u", "n", "c", "t", "i", "o", "n", " ">> \o unwrap(function_path) \o <<"(", "s", "e", "l", "f", ",", " ">>,
                           <<"f", "u", "n", "c", "t", "i", "o", "n", " ">> \o replace_dots(unwrap(function_path)) \o <<"(">>,
                           self.position))

(***************************************************************************)
(* luau/util.rs: the comments and the upvalue pass                         *)
(***************************************************************************)
gen_string_list(list, prefix) ==
    <<"-", "-", " ">> \o prefix \o <<":", " ">> \o join(list, <<",", " ">>) \o <<"\r", "\n">>

\* util.rs:93-95 with the strings joined on one line
gen_symbol_list_one_line(list, prefix) ==
    <<"-", "-", "[", "[", " ">> \o prefix \o <<":", "\r", "\n", "\t">> \o join(list, <<",", " ">>)
        \o <<"\r", "\n", "]", "]", "\r", "\n">>

gen_symbol_list(list, prefix) ==
    <<"-", "-", "[", "[", " ">> \o prefix \o <<":", "\r", "\n", "\t">> \o join(list, <<"\r", "\n", "\t">>)
        \o <<"\r", "\n", "]", "]", "\r", "\n">>

\* format!("-- Starts at line {}\n", line_start)
line_comment(line_start) == <<"-", "-", " ", "S", "t", "a", "r", "t", "s", " ", "a", "t", " ", "l", "i", "n", "e", " ">> \o decimal(line_start) \o <<"\n">>

\* \bv_u_\d+_\b tried at offset s: the offset after the match, if any
placeholder_at(str, s) ==
    IF ~(s = 0 \/ ~is_word(str[s])) \/ ~matches_at(str, s, <<"v", "_", "u", "_">>) THEN None
    ELSE Bind(digit_run_end(str, s + 4),
              LAMBDA e :
                  IF e = s + 4 \/ e >= Len(str) THEN None
                  ELSE IF str[e + 1] # "_" THEN None
                  ELSE IF e + 1 < Len(str) /\ is_word(str[e + 2]) THEN None
                  ELSE Some(e + 1))

RECURSIVE in_order(_)
in_order(S) ==
    IF S = {} THEN <<>>
    ELSE Bind(min_of(S), LAMBDA m : <<m>> \o in_order(S \ {m}))

\* re.find_iter(&str): the matched texts, left to right
placeholders(str) ==
    Bind(in_order({s \in 0..(Len(str) - 1) : is_some(placeholder_at(str, s))}),
         LAMBDA starts : [k \in 1..Len(starts) |->
                             SubSeq(str, starts[k] + 1, unwrap(placeholder_at(str, starts[k])))])

\* util.rs:130-136: the loop over the matches, from the i-th on
RECURSIVE rename_captures(_, _, _, _)
rename_captures(r, caps, locals, i) ==
    IF i > Len(caps) \/ i > Len(locals) \/ r.st # "ok" THEN r
    ELSE Bind(find_and_replace_string(r.buf, caps[i], locals[i], 0),
              LAMBDA r2 : rename_captures(r2, caps, locals, i + 1))

\* rename_nearest_upvalues; buffer[0..nearest_proto_position] panics when
\* the position is past the end, to_string fails on a slice that is not
\* UTF-8
rename_nearest_upvalues(self, main_index, functions, nearest) ==
    IF Len(functions) = 1 THEN [buf |-> self, st |-> "ok"]
    ELSE IF main_index >= Len(functions) THEN [buf |-> self, st |-> "ok"]
    ELSE IF nearest > Len(self) THEN [buf |-> self, st |-> "panic"]
    ELSE Bind(SubSeq(self, 1, nearest),
              LAMBDA str :
                  IF ~is_utf8(str) THEN [buf |-> self, st |-> "err"]
                  ELSE Bind(<<placeholders(str), get_locals(functions[main_index + 1])>>,
                            LAMBDA a : rename_captures([buf |-> self, st |-> "ok"],
                                                       a[1], a[2], 1)))

(***************************************************************************)
(* format_luau_buffer: inputs                                              *)
(***************************************************************************)
TextFoo == <<"f", "u", "n", "c", "t", "i", "o", "n", " ", "F", "o", "o", "(", "p", "1", ",", " ", "p", "2", ")", "\n", " ", " ", "r", "e", "t", "u", "r", "n", " ", "p", "1", "+", "p", "2", "\n", "e", "n", "d">>
TextMethod3 == <<"f", "u", "n", "c", "t", "i", "o", "n", " ", "M", ".", "d", "o", "T", "h", "i", "n", "g", "(", "s", "e", "l", "f", ",", " ", "x", ",", " ", "y", ")", "\n", " ", " ", "r", "e", "t", "u", "r", "n", " ", "x", "+", "y", "\n", "e", "n", "d", "\n">>
TextMethod1 == <<"f", "u", "n", "c", "t", "i", "o", "n", " ", "M", ".", "d", "o", "T", "h", "i", "n", "g", "(", "s", "e", "l", "f", ")", "\n", " ", " ", "r", "e", "t", "u", "r", "n", " ", "s", "e", "l", "f", "\n", "e", "n", "d", "\n">>
TextGo == <<"f", "u", "n", "c", "t", "i", "o", "n", " ", "M", ".", "g", "o", "(", "s", "e", "l", "f", ",", " ", "a", ",", " ", "b", ")", "\n", " ", " ", "r", "e", "t", "u", "r", "n", " ", "a", "+", "b", "\n", "e", "n", "d", "\n">>
TextThree == <<"f", "u", "n", "c", "t", "i", "o", "n", " ", "F", "o", "o", "(", "a", ",", " ", "b", ",", " ", "c", ")", "\n", " ", " ", "r", "e", "t", "u", "r", "n", " ", "a", "\n", "e", "n", "d", "\n">>
TextUnderscore == <<"f", "u", "n", "c", "t", "i", "o", "n", " ", "F", "o", "o", "(", "_", ",", " ", "b", ")", "\n", " ", " ", "l", "o", "c", "a", "l", " ", "t", "_", "1", " ", "=", " ", "b", "\n", "e", "n", "d", "\n">>
TextNested == <<"f", "u", "n", "c", "t", "i", "o", "n", " ", "F", "o", "o", "(", "_", ")", "\n", " ", " ", "e", "a", "c", "h", "(", "f", "u", "n", "c", "t", "i", "o", "n", "(", "_", ")", "\n", " ", " ", "e", "n", "d", ")", "\n", "e", "n", "d", "\n">>
TextEmptyParens == <<"f", "u", "n", "c", "t", "i", "o", "n", " ", "F", "o", "o", "(", ")", "\n", "e", "n", "d", "\n">>
TextNotUtf8 == <<"f", "u", "n", "c", "t", "i", "o", "n", " ", "F", "o", "o", "(", "p", "1", ",", " ", "p", "2", ")", "\n">> \o <<"<ff>", "\n">>
TextUpvalue == <<"l", "o", "c", "a", "l", " ", "v", "_", "u", "_", "1", "_", " ", "=", " ", "0", "\n", "f", "u", "n", "c", "t", "i", "o", "n", " ", "F", "o", "o", "(", "p", "1", ",", " ", "p", "2", ")", "\n", " ", " ", "r", "e", "t", "u", "r", "n", " ", "v", "_", "u", "_", "1", "_", "\n", "e", "n", "d", "\n">>
TextOneLine == <<"f", "u", "n", "c", "t", "i", "o", "n", " ", "F", "o", "o", "(", "p", "1", ",", " ", "p", "2", ")">>
TextBarFoo == <<"f", "u", "n", "c", "t", "i", "o", "n", " ", "B", "a", "r", "F", "o", "o", "(", "a", ",", " ", "b", ")", "\n", " ", " ", "r", "e", "t", "u", "r", "n", " ", "a", "\n", "e", "n", "d", "\n", "f", "u", "n", "c", "t", "i", "o", "n", " ", "F", "o", "o", "(", "p", "1", ",", " ", "p", "2", ")", "\n", " ", " ", "r", "e", "t", "u", "r", "n", " ", "p", "1", "\n", "e", "n", "d", "\n">>
TextCallBefore == <<"l", "o", "c", "a", "l", " ", "f", " ", "=", " ", "g", "(", "p", "1", ",", " ", "p", "2", ")", "\n", "f", "u", "n", "c", "t", "i", "o", "n", " ", "F", "o", "o", "(", "p", "1", ",", " ", "p", "2", ")", "\n", " ", " ", "r", "e", "t", "u", "r", "n", " ", "p", "1", "\n", "e", "n", "d", "\n", "l", "o", "c", "a", "l", " ", "p", "1", " ", "=", " ", "0", "\n">>
TextTwice == <<"f", "u", "n", "c", "t", "i", "o", "n", " ", "F", "o", "o", "(", "p", "1", ",", " ", "p", "2", ")", "\n", " ", " ", "r", "e", "t", "u", "r", "n", " ", "p", "1", "\n", "e", "n", "d", "\n", "f", "u", "n", "c", "t", "i", "o", "n", " ", "F", "o", "o", "(", "p", "1", ",", " ", "p", "2", ")", "\n", " ", " ", "r", "e", "t", "u", "r", "n", " ", "p", "2", "\n", "e", "n", "d", "\n">>
TextShrink == <<"f", "u", "n", "c", "t", "i", "o", "n", " ", "A", "(", "l", "o", "n", "g", "_", "p", "a", "r", "a", "m", "e", "t", "e", "r", "_", "n", "a", "m", "e", ")", "\n", "e", "n", "d", "\n", "f", "u", "n", "c", "t", "i", "o", "n", " ", "B", "(", "q", ")", "\n">>
TextCallShrink == <<"x", "(", "l", "o", "n", "g", "_", "p", "a", "r", "a", "m", "e", "t", "e", "r", "_", "n", "a", "m", "e", ")", "\n", "f", "u", "n", "c", "t", "i", "o", "n", " ", "A", "(", "l", "o", "n", "g", "_", "p", "a", "r", "a", "m", "e", "t", "e", "r", "_", "n", "a", "m", "e", ")", "\n">>

Texts == {TextFoo, TextMethod3, TextMethod1, TextGo, TextThree, TextUnderscore,
          TextNested, TextEmptyParens, TextNotUtf8, TextUpvalue, TextOneLine}

\* texts with more than one definition, or with a call before the definition
LongTexts == {TextBarFoo, TextCallBefore, TextTwice}

\* prototype names: none, the names the texts define, and one that is not
\* a valid pattern
ProtoNames == {None, Some(<<"F", "o", "o">>), Some(<<"d", "o", "T", "h", "i", "n", "g">>), Some(<<"g", "o">>), Some(<<"(">>)}

\* the parameter names recovered from the debug info, by register
RecoveredLists ==
    {<<>>, <<<<"a">>>>, <<<<"s", "e", "l", "f">>>>, <<<<"a">>, <<"b">>>>, <<<<"s", "e", "l", "f">>, <<"a">>>>,
     <<<<"p", "2">>, <<"p", "1">>>>, <<<<"s", "e", "l", "f">>, <<"a">>, <<"b">>>>, <<<<"s", "e", "l", "f">>, <<"b">>, <<"c">>>>}

\* the rest of a prototype: its true locals, its upvalues, the absolute
\* line values of its line info (None without line info) and the symbol
\* table of its module
Shapes ==
    {[locals |-> <<Local(<<"x">>, 3, 9, 4)>>, upvalues |-> <<>>, lines |-> None,
      symbols |-> <<<<"F", "o", "o">>, <<"x">>>>],
     [locals |-> <<Local(<<"y">>, 5, 9, 5), Local(<<"x">>, 3, 9, 4)>>,
      upvalues |-> <<<<"u">>>>, lines |-> Some(<<3, 12>>), symbols |-> <<>>]}

\* a prototype without true locals
ShapeNoLocals == [locals |-> <<>>, upvalues |-> <<<<"u">>, <<"w">>>>,
                  lines |-> Some(<<7>>),
                  symbols |-> <<>>]

\* parameters are the locals with scope_start 0; the debug info lists them
\* after the true locals here, highest register first
param_locals(rs) == [k \in 1..Len(rs) |-> Local(rs[Len(rs) + 1 - k], 0, 9, Len(rs) - k)]

\* prototype.rs:91 and 121-133: 0, or the last absolute line value
file_scope_start_of(lines) ==
    IF is_some(lines) /\ Len(unwrap(lines)) > 0
    THEN unwrap(lines)[Len(unwrap(lines))]
    ELSE 0

\* prototype.rs:193-195: a named prototype carries a file scope
proto_of(name, rs, shape) ==
    Proto(name, shape.locals \o param_locals(rs), shape.upvalues,
          IF is_some(name)
          THEN Some(<<file_scope_start_of(shape.lines),
                      file_scope_start_of(shape.lines) + 1>>)
          ELSE None)

\* the anonymous top-level chunk, with one true local
MainProto == Proto(None, <<Local(<<"c", "f", "g">>, 1, 9, 0)>>, <<>>, None)

OptionSets == [use_symbol_table : BOOLEAN, use_line_numbers : BOOLEAN,
               use_variables : BOOLEAN]

\* the modules of the pass: a text, the named prototype decoded for it
\* (twice, one per definition, when twice is set), with or without an
\* anonymous top-level chunk before it, and with or without another named
\* prototype (first) that the bytecode lists before it
Modules ==
    [text : Texts, name : ProtoNames, recovered : RecoveredLists,
     shape : Shapes, with_main : BOOLEAN, twice : {FALSE}, first : {None}]
    \cup [text : LongTexts \cup {TextFoo}, name : {None, Some(<<"F", "o", "o">>)},
          recovered : {<<<<"a">>>>, <<<<"a">>, <<"b">>>>},
          shape : Shapes \cup {ShapeNoLocals}, with_main : BOOLEAN, twice : BOOLEAN,
          first : {None}]
    \cup [text : {TextShrink, TextCallShrink, TextBarFoo}, name : {Some(<<"A">>), Some(<<"B", "a", "r", "F", "o", "o">>)},
          recovered : {<<<<"a">>>>, <<<<"a">>, <<"b">>>>},
          shape : Shapes \cup {ShapeNoLocals}, with_main : BOOLEAN, twice : {FALSE},
          first : {Some(<<"B">>), Some(<<"F", "o", "o">>)}]

prototypes_of(m) ==
    (IF m.with_main THEN <<MainProto>> ELSE <<>>)
        \o (IF is_some(m.first)
            THEN <<proto_of(m.first, m.recovered, m.shape)>> ELSE <<>>)
        \o <<proto_of(m.name, m.recovered, m.shape)>>
        \o (IF m.twice THEN <<proto_of(m.name, m.recovered, m.shape)>> ELSE <<>>)

InitFormat ==
    /\ \E m \in Modules :
           /\ desc = m
           /\ buffer = m.text /\ input = m.text /\ before = m.text
           /\ prototypes = prototypes_of(m)
           /\ symbol_table = m.shape.symbols
    /\ main = 0
    /\ opts \in OptionSets
    /\ proto_index = 0 /\ parser = None /\ nearest_proto_position = 0
    /\ pc = "locate" /\ res = "none" /\ panicked = FALSE
    /\ overflow_checks = FALSE /\ cursor = 0
    /\ bc_version = 0 /\ types_version = 0 /\ remaining = 0
    /\ IdleShift /\ IdleDecode
    /\ IdleBatch /\ IdlePatch

(***************************************************************************)
(* format_luau_buffer: the loop over the prototypes, then the upvalue pass *)
(* and the symbol table                                                    *)
(***************************************************************************)
\* Vec::splice(at..at, text): a panic when at is past the end
insert_at(self, at, text) ==
    IF at > Len(self) THEN [buf |-> self, st |-> "panic"]
    ELSE [buf |-> splice(self, at, 0, text), st |-> "ok"]

\* how a failed edit ends the pass: a panic unwinds, Err is returned, a
\* loop that never ends never returns
Abort(st) ==
    /\ pc' = "done"
    /\ panicked' = (st = "panic")
    /\ res' = IF st = "panic" THEN res ELSE st

\* util.rs:157-158
reattach(self, buf) ==
    Bind(rename_parameters(self, buf),
         LAMBDA r : IF r.st # "ok" THEN r
                    ELSE rename_self([self EXCEPT !.has_self = has_self_after(self)], r.buf))

\* util.rs:167-194
variable_comments(buf, proto, site, is_main, nearest) ==
    Bind(<<gen_string_list(get_locals(proto), <<"L", "o", "c", "a", "l", " ", "v", "a", "l", "u", "e", "s">>),
           gen_string_list(proto.upvalues, <<"U", "p", "v", "a", "l", "u", "e", "s">>)>>,
         LAMBDA c :
             IF is_some(site)
             THEN Bind(IF Len(get_locals(proto)) > 0
                       THEN insert_at(buf, unwrap(site).position, c[1])
                       ELSE [buf |-> buf, st |-> "ok"],
                       LAMBDA r :
                           IF r.st = "ok" /\ Len(proto.upvalues) > 0
                           THEN insert_at(r.buf, unwrap(site).position, c[2])
                                    @@ [nearest |-> nearest]
                           ELSE r @@ [nearest |-> nearest])
             ELSE IF is_main /\ Len(proto.locals) > 0
             THEN [buf |-> c[1] \o buf, st |-> "ok", nearest |-> nearest + Len(c[1])]
             ELSE [buf |-> buf, st |-> "ok", nearest |-> nearest])

\* util.rs:196-212
line_comments(buf, proto, site) ==
    IF is_some(proto.file_scope) /\ is_some(site)
    THEN insert_at(buf, unwrap(site).position,
                   line_comment(unwrap(proto.file_scope)[1]))
    ELSE [buf |-> buf, st |-> "ok"]

\* util.rs:151-153: FunctionParser::from for prototypes[i]
Locate ==
    /\ pc = "locate" /\ proto_index < Len(prototypes)
    /\ \E r \in {from(buffer, prototypes[proto_index + 1])} :
           /\ buffer' = r.buf
           /\ parser' = r.parser
           /\ pc' = IF is_some(r.parser) THEN "rename" ELSE "variables"
    /\ before' = buffer
    /\ UNCHANGED <<input, desc, res, panicked, opts, proto_index, nearest_proto_position,
                   modelVars, shiftVars, decodeVars,
                   overflow_checks, cursor, bc_version, types_version, remaining>>
    /\ UNCHANGED <<batchVars, patchVars>>

\* util.rs:155-163: the Some arm
Rename ==
    /\ pc = "rename"
    /\ \E r \in {reattach(unwrap(parser), buffer)} :
           /\ buffer' = r.buf
           /\ IF r.st = "ok"
              THEN /\ pc' = "variables"
                   /\ parser' = Some([unwrap(parser) EXCEPT
                                         !.has_self = has_self_after(unwrap(parser))])
                   /\ nearest_proto_position' =
                          IF nearest_proto_position = 0 THEN unwrap(parser).position
                          ELSE nearest_proto_position
                   /\ UNCHANGED <<res, panicked>>
              ELSE Abort(r.st) /\ UNCHANGED <<parser, nearest_proto_position>>
    /\ UNCHANGED <<input, desc, opts, proto_index, before,
                   modelVars, shiftVars, decodeVars,
                   overflow_checks, cursor, bc_version, types_version, remaining>>
    /\ UNCHANGED <<batchVars, patchVars>>

\* util.rs:167-194
VariableComments ==
    /\ pc = "variables"
    /\ IF opts.use_variables
       THEN \E r \in {variable_comments(buffer, prototypes[proto_index + 1], parser,
                                        proto_index = main, nearest_proto_position)} :
                /\ buffer' = r.buf
                /\ nearest_proto_position' = r.nearest
                /\ IF r.st = "ok" THEN pc' = "lines" /\ UNCHANGED <<res, panicked>>
                   ELSE Abort(r.st)
       ELSE pc' = "lines" /\ UNCHANGED <<buffer, nearest_proto_position, res, panicked>>
    /\ UNCHANGED <<input, desc, opts, proto_index, parser, before,
                   modelVars, shiftVars, decodeVars,
                   overflow_checks, cursor, bc_version, types_version, remaining>>
    /\ UNCHANGED <<batchVars, patchVars>>

\* util.rs:196-213, and the step of the for loop
LineComments ==
    /\ pc = "lines"
    /\ IF opts.use_line_numbers
       THEN \E r \in {line_comments(buffer, prototypes[proto_index + 1], parser)} :
                /\ buffer' = r.buf
                /\ IF r.st = "ok"
                   THEN /\ pc' = IF proto_index + 1 < Len(prototypes) THEN "locate" ELSE "upvalues"
                        /\ proto_index' = proto_index + 1
                        /\ UNCHANGED <<res, panicked>>
                   ELSE Abort(r.st) /\ UNCHANGED proto_index
       ELSE /\ pc' = IF proto_index + 1 < Len(prototypes) THEN "locate" ELSE "upvalues"
            /\ proto_index' = proto_index + 1
            /\ UNCHANGED <<buffer, res, panicked>>
    /\ UNCHANGED <<input, desc, opts, parser, nearest_proto_position, before,
                   modelVars, shiftVars, decodeVars,
                   overflow_checks, cursor, bc_version, types_version, remaining>>
    /\ UNCHANGED <<batchVars, patchVars>>

\* util.rs:215
RenameNearestUpvalues ==
    /\ pc = "upvalues"
    /\ \E r \in {rename_nearest_upvalues(buffer, main, prototypes, nearest_proto_position)} :
           /\ buffer' = r.buf
           /\ IF r.st = "ok" THEN pc' = "symbols" /\ UNCHANGED <<res, panicked>>
              ELSE Abort(r.st)
    /\ UNCHANGED <<input, desc, opts, proto_index, parser, nearest_proto_position, before,
                   modelVars, shiftVars, decodeVars,
                   overflow_checks, cursor, bc_version, types_version, remaining>>
    /\ UNCHANGED <<batchVars, patchVars>>

\* util.rs:217-223
SymbolTable ==
    /\ pc = "symbols"
    /\ buffer' = IF opts.use_symbol_table /\ Len(symbol_table) > 0
                 THEN gen_symbol_list(symbol_table, <<"S", "y", "m", "b", "o", "l", " ", "t", "a", "b", "l", "e">>) \o buffer
                 ELSE buffer
    /\ pc' = "done"
    /\ res' = "ok"
    /\ UNCHANGED <<input, desc, panicked, opts, proto_index, parser,
                   nearest_proto_position, before,
                   modelVars, shiftVars, decodeVars,
                   overflow_checks, cursor, bc_version, types_version, remaining>>
    /\ UNCHANGED <<batchVars, patchVars>>

Next == Locate \/ Rename \/ VariableComments \/ LineComments
            \/ RenameNearestUpvalues \/ SymbolTable

Spec == InitFormat /\ [][Next]_vars

(***************************************************************************)
(* Properties of the reattachment pass                                     *)
(***************************************************************************)
\* the prototype whose turn it is
CurrentProto == prototypes[proto_index + 1]

InTurn == proto_index < Len(prototypes) /\ pc \in {"rename", "variables", "lines"}

ends_with(a, b) == Len(b) <= Len(a) /\ SubSeq(a, Len(a) - Len(b) + 1, Len(a)) = b

count_of(s, c) == Cardinality({k \in 1..Len(s) : s[k] = c})

\* the parenthesized parameter text of the definition line at which a name
\* is located in a text, if there is one
located_group(text, name) ==
    Bind(find_position_of_function(text, name, 0).found,
         LAMBDA p :
             IF ~is_some(p) THEN None
             ELSE Bind(find_bytes_from(text, <<"\n">>, unwrap(p)).found,
                       LAMBDA sz :
                           IF ~is_some(sz) THEN None
                           ELSE first_paren_group(SubSeq(text, unwrap(p) + 1,
                                                         unwrap(p) + unwrap(sz)))))

\* the located function's parameter list is empty or has a number of
\* comma-separated tokens other than the number of recovered parameters
ArityMismatch ==
    /\ InTurn
    /\ is_some(CurrentProto.name)
    /\ \E g \in {located_group(before, unwrap(CurrentProto.name))} :
           /\ is_some(g)
           /\ \/ Len(unwrap(g)) = 0
              \/ count_of(unwrap(g), ",") + 1 # Len(get_parameters(CurrentProto))

\* C6: when the located function's textual parameter list is empty or its
\* token count differs from the number of recovered parameters, the
\* prototype gets no parser (so no rename and no method rewrite happen) and
\* its turn leaves the text as it was: no "\r\n" is inserted, and whatever
\* the turn adds (the main chunk's comment at offset 0) precedes the text.
C6_AritySkip ==
    ArityMismatch =>
        /\ pc # "rename"
        /\ parser = None
        /\ ends_with(buffer, before)
        /\ pc = "variables" => buffer = before

\* a signature of three tokens met by a prototype of two parameters
C6_Witness ==
    /\ pc = "variables" /\ ArityMismatch
    /\ Len(get_parameters(CurrentProto)) = 2
    /\ \E g \in {located_group(before, unwrap(CurrentProto.name))} :
           count_of(unwrap(g), ",") + 1 = 3
    /\ buffer = before

\* the definition line of the current site is "function T.m(self, ...)"
\* and the first recovered name is self
MethodSite ==
    /\ InTurn /\ pc # "rename" /\ is_some(parser)
    /\ \E path \in {get_class_path(unwrap(parser).definition)} :
           /\ is_some(path)
           /\ unwrap(parser).definition =
                  <<"f", "u", "n", "c", "t", "i", "o", "n", " ">> \o unwrap(path) \o <<"(">>
                      \o unwrap(parser).definition_parameters_str \o <<")">>
           /\ count_of(unwrap(path), ".") = 1
    /\ unwrap(parser).definition_parameters[1] = <<"s", "e", "l", "f">>
    /\ \A k \in 2..Len(unwrap(parser).definition_parameters) :
           /\ unwrap(parser).definition_parameters[k][1] = " "
           /\ \A j \in 2..Len(unwrap(parser).definition_parameters[k]) :
                  is_word(unwrap(parser).definition_parameters[k][j])
    /\ unwrap(parser).parameters[1] = <<"s", "e", "l", "f">>

\* what C7 says the site reads after reattachment
method_signature(site) ==
    <<"f", "u", "n", "c", "t", "i", "o", "n", " ">> \o replace_dots(unwrap(get_class_path(site.definition))) \o <<"(">>
        \o join(Tail(site.parameters), <<",", " ">>) \o <<")">>

\* C7 as stated: a site "function T.m(self, p2, ..., pn)" with recovered
\* names [self, r2, ..., rn] reads exactly "function T:m(r2, ..., rn)" once
\* rename_parameters and rename_self have run.
C7_AsStated ==
    (pc = "variables" /\ MethodSite) =>
        matches_at(buffer, unwrap(parser).position,
                   method_signature(unwrap(parser)) \o <<"\n">>)

\* the text from the end of the signature line on, in a buffer where the
\* line starts at offset position
body_from(text, position) ==
    SubSeq(text, position + unwrap(find_bytes_from(text, <<"\n">>, position).found) + 1, Len(text))

\* a parameter of the current site is written "_" in the text
UnderscoreSite ==
    /\ InTurn /\ pc # "rename" /\ is_some(parser)
    /\ \E k \in 1..Len(unwrap(parser).definition_parameters) :
           trim(unwrap(parser).definition_parameters[k]) = <<"_">>

\* C8 as stated: when a parameter is written "_" in the text, the text
\* after the signature holds the same "_" characters after the rename as
\* before it.
C8_AsStated ==
    (pc = "variables" /\ UnderscoreSite) =>
        count_of(body_from(buffer, unwrap(parser).position), "_")
            = count_of(body_from(before, unwrap(parser).position - 2), "_")

\* the round-trip scenario: the one prototype Foo, two recovered parameter
\* names, one true local, on the text of TextFoo, variable comments on
FooScenario ==
    /\ input = TextFoo
    /\ Len(prototypes) = 1
    /\ prototypes[1].name = Some(<<"F", "o", "o">>)
    /\ Len(get_parameters(prototypes[1])) = 2
    /\ Len(get_locals(prototypes[1])) = 1
    /\ opts.use_variables

\* what C9 says the text ends with
foo_expected(proto) ==
    gen_string_list(get_locals(proto), <<"L", "o", "c", "a", "l", " ", "v", "a", "l", "u", "e", "s">>)
        \o <<"f", "u", "n", "c", "t", "i", "o", "n", " ", "F", "o", "o", "(">> \o get_parameters(proto)[1] \o <<",", " ">>
        \o get_parameters(proto)[2] \o <<")", "\n", " ", " ", "r", "e", "t", "u", "r", "n", " ">>
        \o get_parameters(proto)[1] \o <<"+">> \o get_parameters(proto)[2] \o <<"\n", "e", "n", "d">>

\* C9 as stated: in the round-trip scenario the pass succeeds and the text
\* ends with the local-values comment line, directly followed by the
\* function with the recovered names in its signature and body.
C9_AsStated ==
    (pc = "done" /\ FooScenario) =>
        /\ res = "ok" /\ ~panicked
        /\ ends_with(buffer, foo_expected(prototypes[1]))

\* the text is not UTF-8, or the prototype has no name, no parameter, or a
\* name from which no pattern compiles
Unlocatable ==
    /\ InTurn
    /\ \/ ~is_utf8(before)
       \/ ~is_some(CurrentProto.name)
       \/ Len(get_parameters(CurrentProto)) = 0
       \/ ~regex_compiles(unwrap(CurrentProto.name))

\* C10: for a text that is not UTF-8, a prototype without a name or without
\* parameters, or a name whose pattern does not compile, locating yields no
\* parser, changes nothing, raises no error and does not panic, and the
\* pass goes on with the rest of the turn.
C10_LocateNone ==
    Unlocatable =>
        /\ pc # "rename"
        /\ parser = None
        /\ res = "none" /\ ~panicked
        /\ pc = "variables" => buffer = before

\* a named prototype with parameters whose name does not compile, skipped
\* in a pass that has moved on to a later prototype's turn
C10_Witness ==
    /\ pc = "variables" /\ Unlocatable
    /\ is_utf8(before)
    /\ is_some(CurrentProto.name)
    /\ Len(get_parameters(CurrentProto)) > 0
    /\ ~regex_compiles(unwrap(CurrentProto.name))
    /\ proto_index = 1
    /\ parser = None /\ buffer = before

\* the text at offset p reads "function ", then nothing or a qualified
\* prefix ending in a dot, then exactly the name, then "("
exact_name_at(text, p, name) ==
    /\ matches_at(text, p, <<"f", "u", "n", "c", "t", "i", "o", "n", " ">>)
    /\ \E j \in 0..(Len(text) - p - 9) :
           /\ \A k \in 1..j : in_prefix_class(text[p + 9 + k])
           /\ j > 0 => text[p + 9 + j] = "."
           /\ matches_at(text, p + 9 + j, name \o <<"(">>)

\* C11 as stated: the position at which a prototype's name is located is
\* that of a definition whose final name segment is exactly the name, never
\* of one whose last identifier merely ends with the name.
C11_AsStated ==
    (pc = "rename" /\ is_some(CurrentProto.name)) =>
        exact_name_at(before, unwrap(parser).position - 2, unwrap(CurrentProto.name))

\* the offset just past the "end" line that closes the definition starting
\* at offset position: the first "end" at the start of a line after it
extent_end(text, position) ==
    Bind(find_bytes_from(text, <<"\n", "e", "n", "d">>, position).found,
         LAMBDA e : IF is_some(e) THEN min_of({position + unwrap(e) + 4, Len(text)})
                    ELSE Len(text))

\* C12 as stated: rename_parameters leaves every byte before the site and
\* every byte after the end of the located definition as it was.
C12_AsStated ==
    (pc = "rename") =>
        \A r \in {rename_parameters(unwrap(parser), buffer)} :
            r.st = "ok" =>
                /\ SubSeq(r.buf, 1, unwrap(parser).position)
                       = SubSeq(buffer, 1, unwrap(parser).position)
                /\ ends_with(r.buf, SubSeq(buffer,
                                           extent_end(buffer, unwrap(parser).position) + 1,
                                           Len(buffer)))

\* the buffer in which only the parameter list of the located signature is
\* replaced by the recovered names
signature_replaced_once(self, buf) ==
    splice(buf, self.position + unwrap(find_bytes_from(buf, <<"(">>, self.position).found),
           Len(self.definition_parameters_str) + 2,
           <<"(">> \o join(self.parameters, <<",", " ">>) \o <<")">>)

\* C14 as stated: the replacement of "(<original params>)" by
\* "(<recovered names>)" in rename_parameters rewrites the located
\* signature and no other occurrence of that text in the buffer.
C14_AsStated ==
    (pc = "rename") =>
        \A r \in {rename_signature(unwrap(parser), buffer)} :
            r.st = "ok" => r.buf = signature_replaced_once(unwrap(parser), buffer)

\* the offsets in a text at which a definition of exactly the name starts
definitions_of(text, name) ==
    {p \in 0..(Len(text) - 1) : exact_name_at(text, p, name)}

\* which of the definitions of a text, counted from its start, begins at
\* offset p; the edits of the pass add and remove none
definition_ordinal(text, p) ==
    Cardinality({q \in 0..p : matches_at(text, q, <<"f", "u", "n", "c", "t", "i", "o", "n", " ">>)})

\* the turn of the second of two prototypes of one name, for a text that
\* holds one definition per prototype, the first prototype having been
\* located
SecondOfTwo ==
    /\ desc.twice /\ is_some(desc.name)
    /\ proto_index + 1 = Len(prototypes)
    /\ Cardinality(definitions_of(input, unwrap(desc.name))) = 2
    /\ nearest_proto_position # 0

\* C15 as stated: the second of two prototypes with one name is located at
\* a later definition than the first of them, which was located at the
\* first definition of that name.
C15_AsStated ==
    (pc = "rename" /\ SecondOfTwo) =>
        definition_ordinal(before, unwrap(parser).position - 2)
            > definition_ordinal(input, min_of(definitions_of(input, unwrap(desc.name))))

\* C16: when a prototype is located and passes the arity check, the buffer
\* is the one before with "\r\n" inserted directly before the match, and
\* the recorded position is the match advanced by those two bytes: the
\* buffer at the recorded position reads the matched "function ..." line.
C16_SiteAdvanced ==
    (pc = "rename") =>
        /\ unwrap(parser).position >= 2
        /\ find_position_of_function(before, unwrap(CurrentProto.name), 0).found
               = Some(unwrap(parser).position - 2)
        /\ buffer = splice(before, unwrap(parser).position - 2, 0, <<"\r", "\n">>)
        /\ matches_at(buffer, unwrap(parser).position, <<"f", "u", "n", "c", "t", "i", "o", "n", " ">>)
        /\ matches_at(buffer, unwrap(parser).position, unwrap(parser).definition \o <<"\n">>)

\* a definition located after other text: the separator is inserted in the
\* middle of the buffer, between that text and the definition
C16_Witness ==
    /\ pc = "rename"
    /\ unwrap(parser).position > 2
    /\ Len(buffer) = Len(before) + 2
    /\ matches_at(buffer, unwrap(parser).position - 2, <<"\r", "\n", "f", "u", "n", "c", "t", "i", "o", "n", " ">>)
    /\ SubSeq(buffer, 1, unwrap(parser).position - 2)
           = SubSeq(before, 1, unwrap(parser).position - 2)

\* C17 as stated: once rename_parameters and rename_self have edited the
\* buffer, the site position of a located prototype is still the offset of
\* the first byte of its "function" definition line, which is where the
\* comments are then inserted.
C17_AsStated ==
    (pc = "variables" /\ is_some(parser)) =>
        /\ matches_at(buffer, unwrap(parser).position, <<"f", "u", "n", "c", "t", "i", "o", "n", " ">>)
        /\ matches_at(buffer, unwrap(parser).position - 1, <<"\n">>)

\* the names of the locals of a prototype whose scope starts after pc 0,
\* by ascending scope_start (in the order of the debug info among equals)
true_locals_in_order(proto) ==
    LET idx == {k \in 1..Len(proto.locals) : proto.locals[k].scope_start > 0}
        rank(k) == 1 + Cardinality({j \in idx :
                           \/ proto.locals[j].scope_start < proto.locals[k].scope_start
                           \/ /\ proto.locals[j].scope_start = proto.locals[k].scope_start
                              /\ j < k})
    IN [r \in 1..Cardinality(idx) |-> proto.locals[CHOOSE k \in idx : rank(k) = r].name]

\* the comment line of a list of names, or nothing for an empty list
comment_line(label, names) ==
    IF names = <<>> THEN <<>>
    ELSE <<"-", "-", " ">> \o label \o <<":", " ">> \o join(names, <<",", " ">>) \o <<"\r", "\n">>

\* what C18 says is inserted at the site of a prototype
expected_comments(proto) ==
    IF opts.use_variables
    THEN comment_line(<<"U", "p", "v", "a", "l", "u", "e", "s">>, proto.upvalues)
             \o comment_line(<<"L", "o", "c", "a", "l", " ", "v", "a", "l", "u", "e", "s">>, true_locals_in_order(proto))
    ELSE <<>>

\* C18 as stated: for a located prototype the step of the variable comments
\* inserts, at the site position and nowhere else, the Upvalues line (the
\* upvalues in declaration order) and the Local values line (the true
\* locals by ascending scope_start), each only when its list is not empty,
\* and nothing at all when the option is off.
C18_AsStated ==
    [][(pc = "variables" /\ is_some(parser)) =>
           IF expected_comments(CurrentProto) = <<>> THEN buffer' = buffer
           ELSE /\ unwrap(parser).position <= Len(buffer)
                /\ buffer' = splice(buffer, unwrap(parser).position, 0,
                                    expected_comments(CurrentProto))]_vars

\* C19 as stated: in the turn of a prototype without a site, with variable
\* comments on, the step of the variable comments puts a Local values line
\* at offset 0 exactly when the prototype is the main one and has a true
\* local, the line listing the true locals; otherwise it changes nothing.
C19_AsStated ==
    [][(pc = "variables" /\ ~is_some(parser) /\ opts.use_variables) =>
           buffer' = (IF proto_index = main /\ true_locals_in_order(CurrentProto) # <<>>
                      THEN comment_line(<<"L", "o", "c", "a", "l", " ", "v", "a", "l", "u", "e", "s">>, true_locals_in_order(CurrentProto))
                      ELSE <<>>) \o buffer]_vars

\* the absolute line values decoded for the prototype whose turn it is
\* (the anonymous top-level chunk of a module is given no line info)
current_lines ==
    IF desc.with_main /\ proto_index = 0 THEN None ELSE desc.shape.lines

\* C20 as stated: with line numbers on, the step of the line comment
\* inserts "-- Starts at line N", N the last absolute line value of the
\* prototype's line info, at the site position of a located prototype that
\* has such a value, and changes nothing for any other prototype.
C20_AsStated ==
    [][(pc = "lines" /\ opts.use_line_numbers) =>
           buffer' = IF is_some(parser) /\ is_some(current_lines)
                     THEN splice(buffer, unwrap(parser).position, 0,
                                 <<"-", "-", " ", "S", "t", "a", "r", "t", "s", " ", "a", "t", " ", "l", "i", "n", "e", " ">>
                                     \o decimal(unwrap(current_lines)[Len(unwrap(current_lines))])
                                     \o <<"\n">>)
                     ELSE buffer]_vars

\* the offsets at which a placeholder v_u_<digits>_ starts in a text, left
\* to right
placeholder_starts(str) ==
    in_order({s \in 0..(Len(str) - 1) : is_some(placeholder_at(str, s))})

\* a text with its k-th, (k-1)-th, ..., first placeholder occurrence
\* replaced by the name of the same rank
RECURSIVE replace_by_rank(_, _, _, _)
replace_by_rank(str, starts, names, k) ==
    IF k = 0 THEN str
    ELSE replace_by_rank(splice(str, starts[k],
                                unwrap(placeholder_at(str, starts[k])) - starts[k],
                                names[k]),
                         starts, names, k - 1)

\* what C21 says the upvalue pass makes of a buffer whose first located
\* site is at offset nearest
claimed_upvalue_pass(buf, nearest, names) ==
    Bind(placeholder_starts(SubSeq(buf, 1, nearest)),
         LAMBDA starts :
             replace_by_rank(SubSeq(buf, 1, nearest), starts, names,
                             min_of({Len(starts), Len(names)}))
                 \o SubSeq(buf, nearest + 1, Len(buf)))

\* C21 as stated: in a module of a main chunk and functions, the upvalue
\* pass replaces the i-th placeholder of the text before the first located
\* site by the i-th true local of the main prototype, as far as both last,
\* and changes nothing from that site on.
C21_AsStated ==
    [][(pc = "upvalues" /\ Len(prototypes) > 1
           /\ nearest_proto_position <= Len(buffer)) =>
           buffer' = claimed_upvalue_pass(buffer, nearest_proto_position,
                                          true_locals_in_order(prototypes[main + 1]))]_vars

\* one tab-indented line for each string of a list
RECURSIVE indented_lines(_)
indented_lines(list) ==
    IF list = <<>> THEN <<>>
    ELSE <<"\t">> \o Head(list) \o <<"\r", "\n">> \o indented_lines(Tail(list))

\* the block comment C22 describes
symbol_preamble(list) ==
    <<"-", "-", "[", "[", " ", "S", "y", "m", "b", "o", "l", " ", "t", "a", "b", "l", "e", ":">> \o <<"\r", "\n">> \o indented_lines(list) \o <<"]", "]">> \o <<"\r", "\n">>

\* C22: the last step of the pass puts the block comment listing the
\* symbol table, one tab-indented line per string in table order, in front
\* of the text when the option is on and the table is not empty, and
\* leaves the text as it is otherwise; the pass ends with this step, so
\* nothing is put in front of the preamble.
C22_SymbolPreamble ==
    [][(pc = "symbols") =>
           /\ buffer' = (IF opts.use_symbol_table /\ symbol_table # <<>>
                         THEN symbol_preamble(symbol_table) ELSE <<>>) \o buffer
           /\ pc' = "done" /\ res' = "ok"]_vars

\* a finished pass whose text starts with the preamble of two strings,
\* followed by the comment of the main chunk that an earlier step put at
\* offset 0
C22_Witness ==
    /\ pc = "done" /\ res = "ok"
    /\ opts.use_symbol_table /\ opts.use_variables
    /\ symbol_table = <<<<"F", "o", "o">>, <<"x">>>>
    /\ matches_at(buffer, 0,
                  <<"-", "-", "[", "[", " ", "S", "y", "m", "b", "o", "l", " ", "t", "a", "b", "l", "e", ":", "\r", "\n", "\t", "F", "o", "o", "\r", "\n", "\t", "x", "\r", "\n", "]", "]", "\r", "\n", "-", "-", " ", "L", "o", "c", "a", "l", " ", "v", "a", "l", "u", "e", "s", ":", " ", "c", "f", "g", "\r", "\n">>)

\* the names of the locals of a prototype whose scope starts at pc 0, by
\* ascending register (in the order of the debug info among equals)
parameters_in_order(proto) ==
    LET idx == {k \in 1..Len(proto.locals) : proto.locals[k].scope_start = 0}
        rank(k) == 1 + Cardinality({j \in idx :
                           \/ proto.locals[j].register < proto.locals[k].register
                           \/ /\ proto.locals[j].register = proto.locals[k].register
                              /\ j < k})
    IN [r \in 1..Cardinality(idx) |-> proto.locals[CHOOSE k \in idx : rank(k) = r].name]

\* C25: for every prototype, get_parameters is the names of the locals
\* with scope_start = 0 by ascending register, get_locals is the names of
\* the locals with scope_start > 0 by ascending scope_start, and the two
\* together hold every local exactly once.
C25_ParametersAndLocals ==
    \A k \in 1..Len(prototypes) :
        /\ get_parameters(prototypes[k]) = parameters_in_order(prototypes[k])
        /\ get_locals(prototypes[k]) = true_locals_in_order(prototypes[k])
        /\ Len(get_parameters(prototypes[k])) + Len(get_locals(prototypes[k]))
               = Len(prototypes[k].locals)

\* a located prototype whose debug info lists two true locals and three
\* parameters, each group against its order: the parser holds the
\* parameters by register
C25_Witness ==
    /\ pc = "rename"
    /\ names_of(CurrentProto.locals) = <<<<"y">>, <<"x">>, <<"b">>, <<"a">>, <<"s", "e", "l", "f">>>>
    /\ unwrap(parser).parameters = <<<<"s", "e", "l", "f">>, <<"a">>, <<"b">>>>
    /\ get_parameters(CurrentProto) = unwrap(parser).parameters
    /\ get_locals(CurrentProto) = <<<<"x">>, <<"y">>>>

\* C27: when the upvalue pass is about to run, the position of the first
\* located site that format_luau_buffer holds is at most the length of the
\* buffer, whatever edits the prototypes made and in whatever order they
\* were decoded, so that buffer[0..nearest_proto_position] is in range and
\* the pass does not panic.
C27_AsStated == pc = "upvalues" => nearest_proto_position <= Len(buffer)

(***************************************************************************)
(* fs-luau-decompile/src/main.rs, fs-luajit-decompile/src/main.rs: the     *)
(* directory and archive modes.  The files are handed to                   *)
(* into_par_iter().try_for_each on a pool of num_threads workers; the      *)
(* closure returns Err with `?` as soon as a step of its file fails.       *)
(* try_for_each stops handing out items once a closure has returned Err    *)
(* (items whose closure is already running finish) and yields that Err,    *)
(* which main returns.  Which files run before the failure is up to the    *)
(* scheduler.  A closure can also panic (a file shorter than the 3 bytes   *)
(* get_bytecode_info slices, a path without extension): the panic does not *)
(* stop the iteration, the pool runs what remains and then resumes the     *)
(* panic in the caller of try_for_each, so main ends by that panic.        *)
(***************************************************************************)
MaxFiles == 3
MaxThreads == 2

Files == 1..MaxFiles

\* a batch: how the closure of each file ends (Ok, the Err of
\* decompile_file, decode_file or write_to_file, or a panic in one of
\* them), and the size of the pool
Outcomes == {"ok", "err", "panic"}

Batches == [ends : [Files -> Outcomes], num_threads : 1..MaxThreads]

running == {f \in Files : files[f] = "running"}

InitBatch ==
    /\ pc = "batch"
    /\ desc \in Batches
    /\ files = [f \in Files |-> "queued"]
    /\ full = FALSE
    /\ res = "none" /\ panicked = FALSE
    /\ buffer = <<>> /\ input = <<>>
    /\ IdleShift /\ IdleDecode /\ IdleModel /\ IdleFormat /\ IdlePatch
    /\ overflow_checks = FALSE /\ cursor = 0
    /\ bc_version = 0 /\ types_version = 0 /\ remaining = 0

\* a worker takes the next item: the closure is entered for file f
StartFile(f) ==
    /\ pc = "batch" /\ files[f] = "queued"
    /\ ~full
    /\ Cardinality(running) < desc.num_threads
    /\ files' = [files EXCEPT ![f] = "running"]
    /\ UNCHANGED <<pc, buffer, input, panicked, res, desc, full, shiftVars, decodeVars,
                   overflow_checks, cursor, bc_version, types_version, remaining,
                   modelVars, formatVars, patchVars>>

\* the closure of file f ends: Ok(()) after write_to_file, or the Err of
\* the step that failed, which ends the iteration for the items not taken,
\* or a panic, which the pool keeps until the iteration is over
FinishFile(f) ==
    /\ pc = "batch" /\ files[f] = "running"
    /\ files' = [files EXCEPT ![f] = CASE desc.ends[f] = "ok" -> "written"
                                       [] desc.ends[f] = "err" -> "failed"
                                       [] desc.ends[f] = "panic" -> "panicked"]
    /\ full' = (full \/ desc.ends[f] = "err")
    /\ UNCHANGED <<pc, buffer, input, panicked, res, desc, shiftVars, decodeVars,
                   overflow_checks, cursor, bc_version, types_version, remaining,
                   modelVars, formatVars, patchVars>>

\* `return iter_result`: every item was run, or one failed and the
\* closures that were running have returned; a closure's panic is resumed
\* instead of the return
ReturnBatch ==
    /\ pc = "batch" /\ running = {}
    /\ full \/ \A f \in Files : files[f] # "queued"
    /\ pc' = "done"
    /\ panicked' = (\E f \in Files : files[f] = "panicked")
    /\ res' = IF panicked' THEN res ELSE IF full THEN "err" ELSE "ok"
    /\ UNCHANGED <<buffer, input, desc, files, full, shiftVars, decodeVars,
                   overflow_checks, cursor, bc_version, types_version, remaining,
                   modelVars, formatVars, patchVars>>

NextBatch == (\E f \in Files : StartFile(f)) \/ (\E f \in Files : FinishFile(f)) \/ ReturnBatch

SpecBatch == InitBatch /\ [][NextBatch]_vars

\* C13 as stated: when the driver returns, every file of the batch that
\* does not itself fail has been processed and written, and every failing
\* file has had its failure reported: no file is left out because another
\* one failed.
C13_AsStated ==
    pc = "done" =>
        /\ \A f \in Files : desc.ends[f] = "ok" => files[f] = "written"
        /\ \A f \in Files : desc.ends[f] = "err" => files[f] = "failed"
        /\ ~panicked

(***************************************************************************)
(* fs-lib/src/buffer.rs: find_and_replace on its own, over small buffers   *)
(***************************************************************************)
MaxBuffer == 3
MaxPattern == 2

Bytes2 == {"a", "b"}

texts_up_to(n) == UNION {[1..k -> Bytes2] : k \in 0..n}

Replacements ==
    [find : texts_up_to(MaxPattern), replace : texts_up_to(MaxPattern),
     offset : 0..(MaxBuffer + 1)]

InitReplace ==
    /\ pc = "replace"
    /\ buffer \in texts_up_to(MaxBuffer)
    /\ input = buffer
    /\ desc \in Replacements
    /\ res = "none" /\ panicked = FALSE
    /\ IdleShift /\ IdleDecode /\ IdleModel /\ IdleFormat /\ IdleBatch /\ IdlePatch
    /\ overflow_checks = FALSE /\ cursor = 0
    /\ bc_version = 0 /\ types_version = 0 /\ remaining = 0

\* buffer.find_and_replace(&find, &replace, offset): it returns, it
\* panics, or it never returns
FindAndReplace ==
    /\ pc = "replace"
    /\ \E r \in {find_and_replace(buffer, desc.find, desc.replace, desc.offset)} :
           /\ buffer' = r.buf
           /\ pc' = "done"
           /\ panicked' = (r.st = "panic")
           /\ res' = IF r.st = "panic" THEN res ELSE r.st
    /\ UNCHANGED <<input, desc, shiftVars, decodeVars, overflow_checks, cursor, bc_version,
                   types_version, remaining, modelVars, formatVars, batchVars, patchVars>>

NextReplace == FindAndReplace

SpecReplace == InitReplace /\ [][NextReplace]_vars

\* a text from offset i on, with every occurrence of a non-empty find
\* replaced, scanning left to right and going on after each occurrence
RECURSIVE replaced_from(_, _, _, _)
replaced_from(text, find, replace, i) ==
    IF i + Len(find) > Len(text) THEN SubSeq(text, i + 1, Len(text))
    ELSE IF matches_at(text, i, find)
    THEN replace \o replaced_from(text, find, replace, i + Len(find))
    ELSE <<text[i + 1]>> \o replaced_from(text, find, replace, i + 1)

\* C26 as stated: find_and_replace returns for every buffer, pattern,
\* replacement and offset; for a non-empty pattern the buffer is then the
\* old one with its bytes before offset as they were and, from offset on,
\* each occurrence of the pattern replaced, left to right, replaced text
\* not being scanned again.
C26_AsStated ==
    pc = "done" =>
        /\ res = "ok" /\ ~panicked
        /\ desc.find # <<>> =>
               buffer = IF desc.offset > Len(input) THEN input
                        ELSE SubSeq(input, 1, desc.offset)
                                 \o replaced_from(input, desc.find, desc.replace, desc.offset)

(***************************************************************************)
(* Specification SpecRoundTrip: one compiled buffer through compile_file   *)
(* of fs-luau-compile, then through get_bytecode_info and decode_bytecode  *)
(* of fs-luau-decompile                                                    *)
(***************************************************************************)
\* fs-luau-compile main.rs:33-42 with byte 0 left as the shift made it
compile_file_unmarked(bytecode) ==
    LET found == LUAU_DECODE_TABLES(bytecode[1], FALSE)
    IN IF ~found[1] THEN [res |-> "err", buf |-> bytecode, panic |-> FALSE]
       ELSE LET t == found[2]
                r == shift_bytes_reversed(<<0>> \o bytecode, t.bytes, t.offset, t.mask)
            IN IF r.panic THEN [res |-> "none", buf |-> r.buf, panic |-> TRUE]
               ELSE [res |-> "ok", buf |-> r.buf, panic |-> FALSE]

\* fs-luau-compile main.rs:33-42: the table of (version, false), a byte
\* inserted in front, the reversed shift over the whole buffer, 0x02 in
\* byte 0
compile_file(bytecode) ==
    LET found == LUAU_DECODE_TABLES(bytecode[1], FALSE)
    IN IF ~found[1] THEN [res |-> "err", buf |-> bytecode, panic |-> FALSE]
       ELSE LET t == found[2]
                r == shift_bytes_reversed(<<0>> \o bytecode, t.bytes, t.offset, t.mask)
            IN IF r.panic THEN [res |-> "none", buf |-> r.buf, panic |-> TRUE]
               ELSE [res |-> "ok", buf |-> [r.buf EXCEPT ![1] = 2], panic |-> FALSE]

\* lengths of the bodies that follow the first bytes of a compiled buffer:
\* none, one that passes the end of the 8-byte table, one that passes
\* index 255
LongBody == 260
Bodies == {<<>>, <<255, 254, 1, 0, 7, 8, 9, 10, 240>>, [k \in 1..LongBody |-> (k * 7) % 256]}

\* what Compiler::compile returns: the version byte, then at least the
\* string count; version 4 and 5 have no table of their own
CompiledBuffers ==
    {<<v>> \o t \o body : v \in {3, 4, 5, 6},
                          t \in SeqsUpTo(ByteSamples, MaxTail) \ {<<>>},
                          body \in Bodies}

InitRoundTrip ==
    /\ pc = "compile"
    /\ tool = "fs-luau-compile"
    /\ buffer \in CompiledBuffers
    /\ input = buffer
    /\ info = NoInfo
    /\ res = "none"
    /\ panicked = FALSE
    /\ IdleShift /\ IdleParse /\ IdleModel /\ IdleFormat
    /\ IdleBatch /\ IdlePatch

\* compile_file from the compiled bytecode on; the file it writes is the
\* one fs-luau-decompile reads
CompileFile ==
    /\ pc = "compile" /\ tool = "fs-luau-compile"
    /\ \E r \in {compile_file(buffer)} :
           /\ buffer' = r.buf
           /\ panicked' = r.panic
           /\ IF r.res = "ok"
              THEN pc' = "start" /\ tool' = "fs-luau-decompile" /\ res' = "none"
              ELSE pc' = "done" /\ tool' = tool /\ res' = r.res
    /\ UNCHANGED <<input, info, shiftVars, parseVars, modelVars, formatVars, batchVars, patchVars>>

NextRoundTrip == CompileFile \/ GetBytecodeInfo \/ DecodeBytecode

SpecRoundTrip == InitRoundTrip /\ [][NextRoundTrip]_vars

\* C28: a compiled buffer of version 3 or 6 that fs-luau-compile encoded is
\* detected by fs-luau-decompile as encoded, of the same version and not
\* DLC, and decoding it returns the compiled buffer byte for byte.
C28_RoundTrip ==
    (tool = "fs-luau-decompile" /\ input[1] \in {3, 6}) =>
        /\ pc \in {"decode", "done"} => info = Info(input[1], TRUE, FALSE)
        /\ pc = "done" => res = "ok" /\ ~panicked /\ buffer = input

C28_Witness ==
    /\ pc = "done" /\ tool = "fs-luau-decompile"
    /\ input[1] = 6 /\ Len(input) > 256
    /\ info = Info(6, TRUE, FALSE)
    /\ res = "ok" /\ buffer = input

(***************************************************************************)
(* fs-lib/src/lib.rs: EXECUTABLE_PATTERNS; fs-lib/src/buffer.rs:           *)
(* find_bytes, replace_bytes                                               *)
(***************************************************************************)
PatternItem(t, f, r) == [patch_type |-> t, find |-> f, replace |-> r]

SteamPatterns ==
    <<PatternItem("ArchiveCheck", <<116, 22, 72, 139, 65, 24, 72>>,
                                  <<117, 22, 72, 139, 65, 24, 72>>),
      PatternItem("CompileError", <<117, 39, 132, 192, 116, 35, 72>>,
                                  <<113, 39, 132, 192, 116, 35, 72>>),
      PatternItem("CorruptFile", <<15, 132, 212, 22, 0, 0, 65, 139, 222, 72>>,
                                 <<144, 144, 144, 144, 144, 144, 65, 139, 222, 72>>)>>

GiantsPatterns ==
    <<PatternItem("ArchiveCheck", <<116, 22, 72, 139, 132, 36, 184>>,
                                  <<117, 22, 72, 139, 132, 36, 184>>),
      PatternItem("CompileError", <<117, 39, 132, 192, 116, 35, 72>>,
                                  <<113, 39, 132, 192, 116, 35, 72>>),
      PatternItem("CorruptFile", <<15, 132, 124, 18, 0, 0, 65, 139, 222, 72>>,
                                 <<144, 144, 144, 144, 144, 144, 65, 139, 222, 72>>)>>

Platforms == {"Steam", "Giants"}

\* EXECUTABLE_PATTERNS.get(&platform): <<found, items>>
EXECUTABLE_PATTERNS(platform) ==
    IF platform = "Steam" THEN <<TRUE, SteamPatterns>>
    ELSE IF platform = "Giants" THEN <<TRUE, GiantsPatterns>>
    ELSE <<FALSE, <<>>>>

\* buffer.rs:111-113: self.windows(bytes.len()).position(|window| window ==
\* bytes), the offset of the first occurrence; windows(0) panics for an
\* empty pattern
find_bytes(self, bytes) ==
    IF Len(bytes) = 0 THEN [st |-> "panic", found |-> None]
    ELSE LET hits == {i \in 0..(Len(self) - Len(bytes)) :
                         SubSeq(self, i + 1, i + Len(bytes)) = bytes}
         IN [st |-> "ok",
             found |-> IF hits = {} THEN None
                       ELSE Some(CHOOSE i \in hits : \A j \in hits : i <= j)]

\* for i in 0..bytes.len() { self[i + offset] = bytes[i] }: the bytes up to
\* the end of self are written before an index past the end panics; with
\* an empty pattern the loop has no iteration and nothing is indexed
replace_bytes(self, bytes, offset) ==
    [buf |-> [k \in 1..Len(self) |->
                 IF k - 1 >= offset /\ k - 1 < offset + Len(bytes)
                 THEN bytes[k - offset] ELSE self[k]],
     panic |-> Len(bytes) > 0 /\ offset + Len(bytes) > Len(self)]

(***************************************************************************)
(* fs-patch/src/main.rs                                                    *)
(***************************************************************************)
Patch(offset, item, is_applied) ==
    [offset |-> offset, find |-> item.find, replace |-> item.replace,
     patch_type |-> item.patch_type, is_applied |-> is_applied]

\* main.rs:72-92 with an item that is found neither way left out of the list
RECURSIVE patches_of_found_items(_, _, _)
patches_of_found_items(file_buffer, items, result) ==
    IF items = <<>> THEN [st |-> "ok", patches |-> result]
    ELSE Bind(<<find_bytes(file_buffer, Head(items).find).found,
                find_bytes(file_buffer, Head(items).replace).found>>,
              LAMBDA o :
                  IF is_some(o[1])
                  THEN patches_of_found_items(file_buffer, Tail(items),
                           Append(result, Patch(unwrap(o[1]), Head(items), FALSE)))
                  ELSE IF is_some(o[2])
                  THEN patches_of_found_items(file_buffer, Tail(items),
                           Append(result, Patch(unwrap(o[2]), Head(items), TRUE)))
                  ELSE patches_of_found_items(file_buffer, Tail(items), result))

find_valid_patches_lenient(file_buffer, platform) ==
    IF ~EXECUTABLE_PATTERNS(platform)[1] THEN [st |-> "err", patches |-> <<>>]
    ELSE patches_of_found_items(file_buffer, EXECUTABLE_PATTERNS(platform)[2], <<>>)

\* main.rs:72-92: the loop over the items; the find bytes are looked for
\* first, the replace bytes only when they are absent.  The patterns of
\* the catalog have 7 or 10 bytes, so find_bytes returns and only its
\* Option is taken here.
RECURSIVE valid_patches(_, _, _)
valid_patches(file_buffer, items, result) ==
    IF items = <<>> THEN [st |-> "ok", patches |-> result]
    ELSE Bind(<<find_bytes(file_buffer, Head(items).find).found,
                find_bytes(file_buffer, Head(items).replace).found>>,
              LAMBDA o :
                  IF is_some(o[1])
                  THEN valid_patches(file_buffer, Tail(items),
                           Append(result, Patch(unwrap(o[1]), Head(items), FALSE)))
                  ELSE IF is_some(o[2])
                  THEN valid_patches(file_buffer, Tail(items),
                           Append(result, Patch(unwrap(o[2]), Head(items), TRUE)))
                  ELSE [st |-> "err", patches |-> <<>>])

\* main.rs:65-95
find_valid_patches(file_buffer, platform) ==
    IF ~EXECUTABLE_PATTERNS(platform)[1] THEN [st |-> "err", patches |-> <<>>]
    ELSE valid_patches(file_buffer, EXECUTABLE_PATTERNS(platform)[2], <<>>)

\* main.rs:101-113: the loop of patch_executable
RECURSIVE patch_executable(_, _, _)
patch_executable(file_buffer, list, modified) ==
    IF list = <<>> THEN [buf |-> file_buffer, is_modified |-> modified, panic |-> FALSE]
    ELSE IF Head(list).is_applied
    THEN patch_executable(file_buffer, Tail(list), modified)
    ELSE Bind(replace_bytes(file_buffer, Head(list).replace, Head(list).offset),
              LAMBDA r :
                  IF r.panic
                  THEN [buf |-> r.buf, is_modified |-> modified, panic |-> TRUE]
                  ELSE patch_executable(r.buf, Tail(list), TRUE))

\* main.rs:123-135: the loop of patch_revert_executable
RECURSIVE patch_revert_executable(_, _, _)
patch_revert_executable(file_buffer, list, modified) ==
    IF list = <<>> THEN [buf |-> file_buffer, is_modified |-> modified, panic |-> FALSE]
    ELSE IF ~Head(list).is_applied
    THEN patch_revert_executable(file_buffer, Tail(list), modified)
    ELSE Bind(replace_bytes(file_buffer, Head(list).find, Head(list).offset),
              LAMBDA r :
                  IF r.panic
                  THEN [buf |-> r.buf, is_modified |-> modified, panic |-> TRUE]
                  ELSE patch_revert_executable(r.buf, Tail(list), TRUE))

(***************************************************************************)
(* Specification SpecPatch: fs-patch run on one executable, up to MaxRuns  *)
(* times, each run patching or reverting                                   *)
(***************************************************************************)
MaxRuns == 2

Filler == <<0>>

\* what an executable holds of one pattern item: nothing, the find bytes,
\* the replace bytes, either of them twice or both, or the find bytes
\* without their last byte
Layouts(item) ==
    {<<>>, item.find, item.replace,
     item.find \o item.find, item.find \o Filler \o item.replace,
     item.replace \o item.find, item.replace \o Filler \o item.replace,
     SubSeq(item.find, 1, Len(item.find) - 1)}

\* executables: filler bytes around what they hold of each item, the items
\* in the order of the table or in the opposite order
Executables(platform) ==
    LET items == EXECUTABLE_PATTERNS(platform)[2]
    IN UNION {{Filler \o a \o Filler \o b \o Filler \o c,
               c \o Filler \o b \o Filler \o a} :
                  a \in Layouts(items[1]), b \in Layouts(items[2]),
                  c \in Layouts(items[3])}

InitPatch ==
    /\ pc = "idle"
    /\ \E platform \in Platforms :
           /\ desc = [platform |-> platform, revert |-> FALSE]
           /\ disk \in Executables(platform)
    /\ input = disk
    /\ buffer = <<>> /\ patches = <<>> /\ is_modified = FALSE /\ runs = <<>>
    /\ res = "none" /\ panicked = FALSE
    /\ overflow_checks = FALSE /\ cursor = 0
    /\ bc_version = 0 /\ types_version = 0 /\ remaining = 0
    /\ IdleShift /\ IdleDecode /\ IdleModel /\ IdleFormat /\ IdleBatch

\* what a completed run leaves behind
Run(revert, result, modified, list, file) ==
    [revert |-> revert, res |-> result, is_modified |-> modified,
     patches |-> list, disk |-> file]

\* main.rs:164-167, 98-99 and 120-121: a run starts, the file is read and
\* the patches are looked up; an Err ends the run
FindValidPatches ==
    /\ pc = "idle" /\ Len(runs) < MaxRuns
    /\ \E revert \in BOOLEAN :
         \E r \in {find_valid_patches(disk, desc.platform)} :
           /\ desc' = [desc EXCEPT !.revert = revert]
           /\ buffer' = disk
           /\ patches' = r.patches
           /\ is_modified' = FALSE
           /\ IF r.st = "ok"
              THEN pc' = "patch" /\ res' = "none" /\ UNCHANGED runs
              ELSE /\ pc' = "idle" /\ res' = "err"
                   /\ runs' = Append(runs, Run(revert, "err", FALSE, <<>>, disk))
    /\ UNCHANGED <<input, disk, panicked, shiftVars, decodeVars, overflow_checks, cursor,
                   bc_version, types_version, remaining, modelVars, formatVars, batchVars>>

\* main.rs:101-113
PatchExecutable ==
    /\ pc = "patch" /\ ~desc.revert
    /\ \E r \in {patch_executable(buffer, patches, FALSE)} :
           /\ buffer' = r.buf
           /\ is_modified' = r.is_modified
           /\ panicked' = r.panic
           /\ pc' = IF r.panic THEN "done" ELSE "write"
    /\ UNCHANGED <<input, disk, patches, runs, res, desc, shiftVars, decodeVars,
                   overflow_checks, cursor, bc_version, types_version, remaining,
                   modelVars, formatVars, batchVars>>

\* main.rs:123-135
PatchRevertExecutable ==
    /\ pc = "patch" /\ desc.revert
    /\ \E r \in {patch_revert_executable(buffer, patches, FALSE)} :
           /\ buffer' = r.buf
           /\ is_modified' = r.is_modified
           /\ panicked' = r.panic
           /\ pc' = IF r.panic THEN "done" ELSE "write"
    /\ UNCHANGED <<input, disk, patches, runs, res, desc, shiftVars, decodeVars,
                   overflow_checks, cursor, bc_version, types_version, remaining,
                   modelVars, formatVars, batchVars>>

\* main.rs:169-176: the buffer is written back when it was modified
WriteToFile ==
    /\ pc = "write"
    /\ disk' = IF is_modified THEN buffer ELSE disk
    /\ runs' = Append(runs, Run(desc.revert, "ok", is_modified, patches, disk'))
    /\ res' = "ok"
    /\ pc' = "idle"
    /\ UNCHANGED <<input, buffer, patches, is_modified, panicked, desc, shiftVars,
                   decodeVars, overflow_checks, cursor, bc_version, types_version,
                   remaining, modelVars, formatVars, batchVars>>

NextPatch == FindValidPatches \/ PatchExecutable \/ PatchRevertExecutable \/ WriteToFile

SpecPatch == InitPatch /\ [][NextPatch]_vars

\* an item of the platform occurs in the file neither by its find bytes nor
\* by its replace bytes
item_missing(file, platform) ==
    \E k \in 1..Len(EXECUTABLE_PATTERNS(platform)[2]) :
        /\ ~is_some(find_bytes(file, EXECUTABLE_PATTERNS(platform)[2][k].find).found)
        /\ ~is_some(find_bytes(file, EXECUTABLE_PATTERNS(platform)[2][k].replace).found)

\* C29: when an item of the selected platform is found neither by its find
\* bytes nor by its replace bytes, a run of fs-patch (patching or reverting)
\* ends with an error before any byte is changed: the buffer read is still
\* the file, nothing is written, and no later step of the run happens.
C29_AllOrNothing ==
    [][(pc = "idle" /\ item_missing(disk, desc.platform)) =>
           /\ res' = "err" /\ pc' = "idle"
           /\ buffer' = disk /\ disk' = disk /\ ~is_modified'
           /\ runs' = Append(runs, Run(desc'.revert, "err", FALSE, <<>>, disk))]_vars

\* a run failed on a file that holds one item's bytes and lacks another's
C29_Witness ==
    /\ runs # <<>> /\ runs[Len(runs)].res = "err" /\ pc = "idle"
    /\ item_missing(disk, desc.platform)
    /\ \E k \in 1..Len(EXECUTABLE_PATTERNS(desc.platform)[2]) :
           is_some(find_bytes(disk, EXECUTABLE_PATTERNS(desc.platform)[2][k].find).found)
    /\ disk = input /\ buffer = disk

every_item_found(file, platform) ==
    \A k \in 1..Len(EXECUTABLE_PATTERNS(platform)[2]) :
        is_some(find_bytes(file, EXECUTABLE_PATTERNS(platform)[2][k].find).found)

\* C30: on a file in which every item of the platform is found, patching
\* and then reverting leaves the original file byte for byte, and patching
\* a second time finds every patch already applied and modifies nothing.
C30_AsStated ==
    (every_item_found(input, desc.platform) /\ Len(runs) >= 2 /\ ~runs[1].revert) =>
        /\ runs[1].res = "ok" /\ runs[2].res = "ok"
        /\ runs[2].revert => runs[2].disk = input
        /\ ~runs[2].revert =>
               /\ ~runs[2].is_modified
               /\ \A k \in 1..Len(runs[2].patches) : runs[2].patches[k].is_applied
               /\ runs[2].disk = runs[1].disk

=============================================================================
